---- MODULE Spec2Model ----
(***************************************************************************)
(* Model of the ShoppingCart widget of src/cart.js: the item list and its  *)
(* mutators, the derived total and count, the snapshot kept in             *)
(* localStorage, the checkout form with its submit control, and the order  *)
(* submission pipeline (format, clipboard copy, confirm, mailto, resolve). *)
(***************************************************************************)
EXTENDS Integers, Sequences, FiniteSets, TLC

\* ------------------------------------------------------------------------
\* Bounds of the model
\* ------------------------------------------------------------------------

\* largest quantity an item is allowed to reach in the model
MaxQty == 2

\* largest number of submission pipelines in flight in the model
MaxPipes == 2

\* the longest text given to the sanitizer
MaxLen == 4

\* ------------------------------------------------------------------------
\* JavaScript values
\* ------------------------------------------------------------------------

Undef == [t |-> "undef"]

Null == [t |-> "null"]

NaN == [t |-> "nan"]

Num(n) == [t |-> "num", n |-> n]

Str(s) == [t |-> "str", s |-> s]

\* typeof x
TypeOf(x) ==
    CASE x.t = "undef" -> "undefined"
      [] x.t = "num" -> "number"
      [] x.t = "nan" -> "number"
      [] x.t = "str" -> "string"
      [] OTHER -> "object"

\* the truthiness test of `!x`, `x ? a : b` and `if (x)`
Truthy(x) ==
    CASE x.t = "undef" -> FALSE
      [] x.t = "null" -> FALSE
      [] x.t = "nan" -> FALSE
      [] x.t = "num" -> x.n # 0
      [] x.t = "str" -> x.s # ""
      [] OTHER -> TRUE

\* decimal digits of the small non-negative integers used as ids
DigitStr(n) ==
    CASE n = 0 -> "0"
      [] n = 1 -> "1"
      [] n = 2 -> "2"
      [] n = 3 -> "3"
      [] OTHER -> "9"

\* String(x) on the values an id can take once it passed the truthiness test
ToStr(x) ==
    CASE x.t = "str" -> x.s
      [] x.t = "num" -> DigitStr(x.n)
      [] x.t = "nan" -> "NaN"
      [] x.t = "null" -> "null"
      [] OTHER -> "undefined"

\* Number(x): numbers are kept, numeric strings are parsed, other strings
\* give NaN
ToNumber(x) ==
    CASE x.t = "num" -> x
      [] x.t = "nan" -> NaN
      [] x.t = "null" -> Num(0)
      [] x.t = "str" ->
           (CASE x.s = "100" -> Num(100)
              [] x.s = "" -> Num(0)
              [] OTHER -> NaN)
      [] OTHER -> NaN

\* ------------------------------------------------------------------------
\* Inputs of the public operations
\* ------------------------------------------------------------------------

\* a product record as a caller writes it
Product(id, name, image, price, quantity) ==
    [t |-> "obj", id |-> id, name |-> name, image |-> image, price |-> price,
     quantity |-> quantity]

\* ids of the products addItem accepts: strings and a number
IdValues == {Str("1"), Str("2"), Num(1)}

\* prices of the products handed to addItem
PriceValues == {Undef, Num(0), Num(100), Num(-50), Str("100"), Str("abc")}

\* the quantity field a caller may have put on the product
QuantityValues == {Undef, Num(5)}

\* products that carry id, name and image
CompleteProducts ==
    {Product(id, Str("A"), Str("a.jpg"), price, quantity) :
        id \in IdValues, price \in PriceValues, quantity \in QuantityValues}

\* a missing or non-object product, and products lacking id, name or image
IncompleteProducts ==
    {Undef, Null, Str("1"), Num(5),
     Product(Undef, Str("A"), Str("a.jpg"), Num(100), Undef),
     Product(Num(0), Str("A"), Str("a.jpg"), Num(100), Undef),
     Product(Str("1"), Undef, Str("a.jpg"), Num(100), Undef),
     Product(Str("1"), Str("A"), Undef, Num(100), Undef),
     Product(Str("1"), Str("A"), Str(""), Num(100), Undef),
     Product(Str("1"), Undef, Undef, Undef, Undef)}

\* everything a caller may hand to addItem
ProductInputs == CompleteProducts \cup IncompleteProducts

\* productId arguments of removeItem and updateQuantity
ProductIdArgs == {Str("1"), Str("2"), Str("7"), Num(1)}

\* argument triples of updateQuantity: integer quantities and changes for
\* string ids, an id no product has, and triples with an argument of the
\* wrong type
UpdateQuantityArgs ==
    {<<Str(id), Num(q), Num(c)>> :
        id \in {"1", "2"}, q \in 0..MaxQty, c \in (0 - MaxQty)..MaxQty}
    \cup {<<Str("7"), Num(1), Num(1)>>, <<Str("7"), Num(1), Num(-1)>>,
          <<Num(1), Num(1), Num(1)>>, <<Num(1), Num(1), Num(-1)>>,
          <<Str("1"), Str("1"), Num(1)>>, <<Str("1"), Undef, Num(-1)>>,
          <<Str("1"), Num(1), Str("1")>>, <<Str("1"), Num(1), Undef>>,
          <<Undef, Num(1), Num(-1)>>}

\* the products of a session: those of the storefront and one whose price
\* is not a number
SessionProducts ==
    {Product(Str("1"), Str("A"), Str("a.jpg"), Num(100), Undef),
     Product(Str("2"), Str("B"), Str("b.jpg"), Undef, Undef),
     Product(Str("2"), Str("B"), Str("b.jpg"), Str("abc"), Undef)}

\* three products of the storefront, for the order of the item list
OrderProducts ==
    {Product(Str(id), Str("A"), Str("a.jpg"), Num(100), Undef) : id \in {"1", "2", "3"}}

\* the products of the storefront used while a checkout is followed: one
\* with a price, one without, and the latter with a price of zero
CheckoutProducts ==
    {Product(Str("1"), Str("A"), Str("a.jpg"), Num(100), Undef),
     Product(Str("2"), Str("B"), Str("b.jpg"), Undef, Undef),
     Product(Str("2"), Str("B"), Str("b.jpg"), Num(0), Undef)}

\* ------------------------------------------------------------------------
\* State
\* ------------------------------------------------------------------------

VARIABLES
    items,          \* this.items: the ordered list of line items
    storage,        \* the value localStorage holds under the key 'cart'
    form,           \* the values of the checkout form's fields
    customerInfo,   \* this.customerInfo
    submitDisabled, \* elements.submitButton.disabled
    pipes,          \* the submission pipelines in flight, oldest first
    last,           \* the handler that ran last and the branch it took
    fx,             \* the side effects the last handler performed
    steps,          \* what the last handler did for a checkout, in order
    loading         \* the submit control shows its loading indicator

vars == <<items, storage, form, customerInfo, submitDisabled, pipes, last, fx, steps,
          loading>>

\* ------------------------------------------------------------------------
\* Derived values of the cart
\* ------------------------------------------------------------------------

\* the callback of the reduce in the total getter
totalStep(sum, item) ==
    sum + (IF Truthy(item.price) THEN ToNumber(item.price).n * item.quantity ELSE 0)

RECURSIVE reduceTotal(_, _)
reduceTotal(its, sum) ==
    IF its = <<>> THEN sum ELSE reduceTotal(Tail(its), totalStep(sum, Head(its)))

\* mutant of total: the quantity is left out of the product
totalUnitPrices(its) ==
    reduceTotal([i \in 1..Len(its) |-> [its[i] EXCEPT !.quantity = 1]], 0)

\* get total()
total(its) == reduceTotal(its, 0)

RECURSIVE reduceCount(_, _)
reduceCount(its, sum) ==
    IF its = <<>> THEN sum ELSE reduceCount(Tail(its), sum + Head(its).quantity)

\* mutant of count: the number of entries instead of the sum of quantities
countEntries(its) == Len(its)

\* get count()
count(its) == reduceCount(its, 0)

\* ------------------------------------------------------------------------
\* Persistence
\* ------------------------------------------------------------------------

\* localStorage before anything was saved under the key
NoSnapshot == [has |-> FALSE, json |-> <<>>]

\* a key JSON.stringify leaves out of the text
Omitted == [t |-> "omitted"]

\* mutant of jsonValue: an undefined value is written as null
jsonValueNullForUndefined(v) ==
    IF v.t = "nan" \/ v.t = "undef" THEN Null ELSE v

\* JSON.stringify of a property value: NaN is written as null and a key
\* whose value is undefined is left out
jsonValue(v) ==
    IF v.t = "nan" THEN Null
    ELSE IF v.t = "undef" THEN Omitted
    ELSE v

\* JSON.stringify of one item
stringifyItem(item) ==
    [item EXCEPT !.name = jsonValue(item.name), !.image = jsonValue(item.image),
                 !.price = jsonValue(item.price)]

\* JSON.stringify(this.items)
stringify(its) == [i \in 1..Len(its) |-> stringifyItem(its[i])]

\* reading a property of a parsed record: a key that is not in the text
\* reads as undefined
parsedValue(j) == IF j = Omitted THEN Undef ELSE j

\* one record of the array JSON.parse returns
parseItem(j) ==
    IF j = Null THEN Null
    ELSE [j EXCEPT !.name = parsedValue(j.name), !.image = parsedValue(j.image),
                   !.price = parsedValue(j.price)]

\* JSON.parse(saved) for a text that holds an array
parse(json) == [i \in 1..Len(json) |-> parseItem(json[i])]

\* localStorage.setItem('cart', JSON.stringify(this.items))
setItem(its) == [has |-> TRUE, json |-> stringify(its)]

\* a record of a stored array
StoredItem(id, name, image, price, quantity) ==
    [id |-> id, name |-> name, image |-> image, price |-> price, quantity |-> quantity]

\* the values localStorage may hold under the key when a cart is constructed:
\* nothing, an empty text, a text that is not JSON, JSON texts of a number,
\* of null and of an object, and JSON texts of arrays
StoredValues ==
    {NoSnapshot,
     [has |-> TRUE, text |-> ""],
     [has |-> TRUE, text |-> "not json"],
     [has |-> TRUE, value |-> Num(5)],
     [has |-> TRUE, value |-> Null],
     [has |-> TRUE, value |-> [t |-> "obj"]],
     [has |-> TRUE, json |-> <<>>],
     [has |-> TRUE, json |-> <<StoredItem("1", Str("A"), Str("a.jpg"), Num(100), 2),
                               StoredItem("2", Str("B"), Str("b.jpg"), Omitted, 1)>>],
     [has |-> TRUE, json |-> <<StoredItem("1", Str("A"), Str("a.jpg"), Str("100"), 1)>>],
     [has |-> TRUE, json |-> <<StoredItem("1", Omitted, Str("a.jpg"), Num(100), 1)>>],
     [has |-> TRUE, json |-> <<StoredItem("1", Str("A"), Str("a.jpg"), Num(100), 0)>>],
     [has |-> TRUE, json |-> <<StoredItem("1", Str("A"), Str("a.jpg"), Num(100), 1),
                               StoredItem("1", Str("A"), Str("a.jpg"), Num(100), 1)>>],
     [has |-> TRUE, json |-> <<Null>>]}

\* mutant of loadCart: the try block has no catch, so the SyntaxError of
\* JSON.parse leaves the constructor
loadCartWithoutCatch(raw) ==
    IF ~raw.has \/ ("text" \in DOMAIN raw /\ raw.text = "")
    THEN [items |-> <<>>, storage |-> raw, out |-> "nothingSaved"]
    ELSE IF "text" \in DOMAIN raw
    THEN [items |-> <<>>, storage |-> raw, out |-> "threw"]
    ELSE IF "value" \in DOMAIN raw
    THEN [items |-> <<>>, storage |-> raw, out |-> "notAnArray"]
    ELSE IF \E i \in 1..Len(raw.json) : raw.json[i] = Null
    THEN [items |-> <<>>, storage |-> raw, out |-> "threw"]
    ELSE [items |-> parse(raw.json), storage |-> setItem(parse(raw.json)),
          out |-> "restored"]

\* loadCart(): the items the constructor ends with, what localStorage holds
\* afterwards, and the branch taken. A falsy saved text is skipped, a text
\* that does not parse and an array updateCart() cannot render (a null
\* element) end in the catch block, a parsed value that is no array is
\* skipped, and any other array becomes the item list and is saved again
loadCart(raw) ==
    IF ~raw.has \/ ("text" \in DOMAIN raw /\ raw.text = "")
    THEN [items |-> <<>>, storage |-> raw, out |-> "nothingSaved"]
    ELSE IF "text" \in DOMAIN raw
    THEN [items |-> <<>>, storage |-> raw, out |-> "caught"]
    ELSE IF "value" \in DOMAIN raw
    THEN [items |-> <<>>, storage |-> raw, out |-> "notAnArray"]
    ELSE IF \E i \in 1..Len(raw.json) : raw.json[i] = Null
    THEN [items |-> <<>>, storage |-> raw, out |-> "caught"]
    ELSE [items |-> parse(raw.json), storage |-> setItem(parse(raw.json)),
          out |-> "restored"]

\* ------------------------------------------------------------------------
\* The pure part of the cart mutators
\* ------------------------------------------------------------------------

\* mutant of addItemRejects: the image is not checked
addItemRejectsWithoutImageCheck(product) ==
    \/ ~Truthy(product)
    \/ TypeOf(product) # "object"
    \/ ~Truthy(product.id)
    \/ ~Truthy(product.name)

\* the two guards at the head of addItem
addItemRejects(product) ==
    \/ ~Truthy(product)
    \/ TypeOf(product) # "object"
    \/ ~Truthy(product.id)
    \/ ~Truthy(product.name)
    \/ ~Truthy(product.image)

\* id: String(product.id)
normalizedId(product) == ToStr(product.id)

\* price: product.price ? Number(product.price) : undefined
normalizedPrice(product) ==
    IF Truthy(product.price) THEN ToNumber(product.price) ELSE Undef

\* this.items.find(item => item.id === id): the index of the first match, 0 if none
RECURSIVE findFrom(_, _, _)
findFrom(its, id, i) ==
    IF i > Len(its) THEN 0
    ELSE IF its[i].id = id THEN i
    ELSE findFrom(its, id, i + 1)

find(its, id) == findFrom(its, id, 1)

\* mutant of existingIndex: the lookup compares the id as it came
existingIndexRawId(its, product) ==
    IF product.id.t = "str" THEN find(its, product.id.s) ELSE 0

\* const existingItem = this.items.find(item => item.id === normalizedProduct.id)
existingIndex(its, product) == find(its, normalizedId(product))

\* mutant of newItem: the quantity of the input product is kept
newItemKeepsQuantity(product) ==
    [id |-> normalizedId(product), name |-> product.name, image |-> product.image,
     price |-> normalizedPrice(product),
     quantity |-> IF product.quantity.t = "num" THEN product.quantity.n ELSE 1]

\* the item pushed for a product that is not in the cart yet
newItem(product) ==
    [id |-> normalizedId(product), name |-> product.name, image |-> product.image,
     price |-> normalizedPrice(product), quantity |-> 1]

\* mutant of addItemItems: a new item is put in front of the list
addItemItemsUnshift(its, product) ==
    LET i == existingIndex(its, product)
    IN IF i # 0
       THEN [its EXCEPT ![i].quantity = @ + 1]
       ELSE <<newItem(product)>> \o its

\* the item list addItem leaves for an accepted product
addItemItems(its, product) ==
    LET i == existingIndex(its, product)
    IN IF i # 0
       THEN [its EXCEPT ![i].quantity = @ + 1]
       ELSE Append(its, newItem(product))

\* mutant of filterOut: the ids are compared with != instead of !==, so a
\* number matches the string of its digits
RECURSIVE filterOutLoose(_, _)
filterOutLoose(its, productId) ==
    IF its = <<>> THEN <<>>
    ELSE IF /\ Str(Head(its).id) # productId
            /\ ~(productId.t = "num" /\ Head(its).id = DigitStr(productId.n))
         THEN <<Head(its)>> \o filterOutLoose(Tail(its), productId)
         ELSE filterOutLoose(Tail(its), productId)

\* mutant of filterOut: the list is cut at the first match
RECURSIVE cutAtMatch(_, _)
cutAtMatch(its, productId) ==
    IF its = <<>> THEN <<>>
    ELSE IF Str(Head(its).id) # productId
         THEN <<Head(its)>> \o cutAtMatch(Tail(its), productId)
         ELSE <<>>

\* this.items.filter(item => item.id !== productId)
RECURSIVE filterOut(_, _)
filterOut(its, productId) ==
    IF its = <<>> THEN <<>>
    ELSE IF Str(Head(its).id) # productId
         THEN <<Head(its)>> \o filterOut(Tail(its), productId)
         ELSE filterOut(Tail(its), productId)

\* the type check at the head of updateQuantity
updateQuantityBadArgs(productId, currentQty, change) ==
    \/ TypeOf(productId) # "string"
    \/ TypeOf(currentQty) # "number"
    \/ TypeOf(change) # "number"

\* mutant of removesAt: an item is only removed below zero
removesBelowZero(newQty) == newQty < 0

\* if (newQty <= 0)
removesAt(newQty) == newQty <= 0

\* ------------------------------------------------------------------------
\* The checkout form
\* ------------------------------------------------------------------------

\* field values are sequences of characters
RECURSIVE trimStart(_)
trimStart(v) ==
    IF v # <<>> /\ Head(v) = " " THEN trimStart(Tail(v)) ELSE v

RECURSIVE trimEnd(_)
trimEnd(v) ==
    IF v # <<>> /\ v[Len(v)] = " " THEN trimEnd(SubSeq(v, 1, Len(v) - 1)) ELSE v

\* String.prototype.trim
trim(v) == trimEnd(trimStart(v))

\* the positions of character c in v
positions(v, c) == {i \in 1..Len(v) : v[i] = c}

\* /^[^\s@]+@[^\s@]+\.[^\s@]+$/.test(v)
emailRegex(v) ==
    /\ positions(v, " ") = {}
    /\ Cardinality(positions(v, "@")) = 1
    /\ LET at == CHOOSE i \in positions(v, "@") : TRUE
       IN /\ at > 1
          /\ \E dot \in positions(v, ".") : dot > at + 1 /\ dot < Len(v)

\* validity of <input type="email">: one @ between a non-empty local part
\* and a non-empty domain, no blanks
emailInputValid(v) ==
    /\ positions(v, " ") = {}
    /\ Cardinality(positions(v, "@")) = 1
    /\ LET at == CHOOSE i \in positions(v, "@") : TRUE
       IN at > 1 /\ at < Len(v)

\* the form after form.reset()
EmptyForm ==
    [name |-> <<>>, email |-> <<>>, street |-> <<>>, city |-> <<>>,
     postal |-> <<>>, country |-> <<>>, tos |-> FALSE]

\* a form every check accepts
ValidForm ==
    [name |-> <<"J", "o">>, email |-> <<"j", "@", "e", ".", "c">>,
     street |-> <<"M", "a", "i", "n", " ", "1">>, city |-> <<"A", "m">>,
     postal |-> <<"1", "2", "3", "4">>, country |-> <<"N", "L">>, tos |-> TRUE]

\* the field values the input and change events of the model leave
FormInputs ==
    {EmptyForm,
     ValidForm,
     [ValidForm EXCEPT !.name = <<"A">>],
     [ValidForm EXCEPT !.email = <<"j", "@", "e">>],
     [ValidForm EXCEPT !.tos = FALSE]}

\* the field values of a session: the reset form, a form every check accepts
\* and one whose email the markup accepts and validateForm() does not
SessionForms ==
    {EmptyForm, ValidForm, [ValidForm EXCEPT !.email = <<"j", "@", "e">>]}

\* validateForm()
validateForm(f) ==
    /\ ~(trim(f.name) = <<>> \/ Len(trim(f.name)) < 2)
    /\ ~(trim(f.email) = <<>> \/ ~emailRegex(trim(f.email)))
    /\ ~(trim(f.street) = <<>> \/ Len(trim(f.street)) < 5)
    /\ ~(trim(f.city) = <<>> \/ Len(trim(f.city)) < 2)
    /\ ~(trim(f.postal) = <<>> \/ Len(trim(f.postal)) < 4)
    /\ ~(f.country = <<>>)
    /\ ~(~f.tos)

\* form.checkValidity() under the constraints the form's markup declares
checkValidity(f) ==
    /\ f.name # <<>> /\ Len(f.name) >= 2
    /\ f.email # <<>> /\ emailInputValid(f.email)
    /\ f.street # <<>> /\ Len(f.street) >= 5
    /\ f.city # <<>> /\ Len(f.city) >= 2
    /\ f.postal # <<>> /\ Len(f.postal) >= 4
    /\ f.country # <<>>
    /\ f.tos

\* createDefaultCustomerInfo()
createDefaultCustomerInfo ==
    [name |-> <<>>, email |-> <<>>, acceptedTos |-> FALSE,
     address |-> [street |-> <<>>, city |-> <<>>, postal |-> <<>>, country |-> <<>>]]

\* the customer info the submit handler takes from a valid form
customerInfoFromForm(f) ==
    [name |-> trim(f.name), email |-> trim(f.email), acceptedTos |-> f.tos,
     address |-> [street |-> trim(f.street), city |-> trim(f.city),
                  postal |-> trim(f.postal), country |-> f.country]]

\* mutant of buttonDisabled: the item list is not looked at
buttonDisabledIgnoresCart(its, f) == ~checkValidity(f)

\* the value updateSubmitButtonState() gives submitButton.disabled
buttonDisabled(its, f) == ~checkValidity(f) \/ ~(Len(its) > 0)

\* formatOrderEmail throws when a truthy price has no toFixed method
formatThrows(its) ==
    \E i \in 1..Len(its) : Truthy(its[i].price) /\ TypeOf(its[i].price) # "number"

\* ------------------------------------------------------------------------
\* Initial state: a cart constructed over an empty localStorage
\* ------------------------------------------------------------------------

Init ==
    /\ items = <<>>
    /\ storage = NoSnapshot
    /\ form = EmptyForm
    /\ customerInfo = createDefaultCustomerInfo
    /\ submitDisabled = buttonDisabled(<<>>, EmptyForm)
    /\ pipes = <<>>
    /\ last = [op |-> "constructor", out |-> "empty", args |-> <<>>]
    /\ fx = {}
    /\ steps = <<>>
    /\ loading = FALSE

\* ------------------------------------------------------------------------
\* Cart mutators
\* ------------------------------------------------------------------------

\* mutant of updateCart: the list is saved before the change is applied
updateCartSavesOldItems(its) ==
    /\ submitDisabled' = buttonDisabled(its, form)
    /\ storage' = setItem(items)

\* updateCart(): refresh the submit control and save the item list
updateCart(its) ==
    /\ submitDisabled' = buttonDisabled(its, form)
    /\ storage' = setItem(its)

\* addItem(product)
AddItem(product) ==
    /\ fx' = {}
    /\ steps' = <<>>
    /\ UNCHANGED loading
    /\ UNCHANGED <<form, customerInfo, pipes>>
    /\ IF addItemRejects(product)
       THEN /\ last' = [op |-> "addItem", out |-> "rejected", args |-> <<product>>]
            /\ UNCHANGED <<items, storage, submitDisabled>>
       ELSE LET i == existingIndex(items, product)
            IN /\ i # 0 => items[i].quantity < MaxQty
               /\ items' = addItemItems(items, product)
               /\ updateCart(items')
               /\ last' = [op |-> "addItem",
                           out |-> IF i # 0 THEN "merged" ELSE "appended",
                           args |-> <<product>>]

\* removeItem(productId)
RemoveItem(productId) ==
    /\ fx' = {}
    /\ steps' = <<>>
    /\ UNCHANGED loading
    /\ UNCHANGED <<form, customerInfo, pipes>>
    /\ items' = filterOut(items, productId)
    /\ updateCart(items')
    /\ last' = [op |-> "removeItem",
                out |-> IF Len(items') < Len(items) THEN "removed" ELSE "absent",
                args |-> <<productId>>]

\* mutant of UpdateQuantity: the new quantity is looked at before the item
\* is looked up, so a stale id still runs removeItem
UpdateQuantityRemovesBeforeLookup(productId, currentQty, change) ==
    /\ fx' = {}
    /\ steps' = <<>>
    /\ UNCHANGED loading
    /\ UNCHANGED <<form, customerInfo, pipes>>
    /\ IF updateQuantityBadArgs(productId, currentQty, change)
       THEN /\ last' = [op |-> "updateQuantity", out |-> "badArgs",
                        args |-> <<productId, currentQty, change>>]
            /\ UNCHANGED <<items, storage, submitDisabled>>
       ELSE LET i == find(items, productId.s)
                newQty == currentQty.n + change.n
            IN IF removesAt(newQty)
               THEN /\ items' = filterOut(items, productId)
                    /\ updateCart(items')
                    /\ last' = [op |-> "updateQuantity",
                                out |-> IF i = 0 THEN "missing" ELSE "removed",
                                args |-> <<productId, currentQty, change>>]
               ELSE IF i = 0
                    THEN /\ last' = [op |-> "updateQuantity", out |-> "missing",
                                     args |-> <<productId, currentQty, change>>]
                         /\ UNCHANGED <<items, storage, submitDisabled>>
                    ELSE /\ newQty <= MaxQty
                         /\ items' = [items EXCEPT ![i].quantity = newQty]
                         /\ updateCart(items')
                         /\ last' = [op |-> "updateQuantity", out |-> "set",
                                     args |-> <<productId, currentQty, change>>]

\* mutant of UpdateQuantity: the new quantity is computed from the quantity
\* the found item holds, not from currentQty
UpdateQuantityRereadsStored(productId, currentQty, change) ==
    /\ fx' = {}
    /\ steps' = <<>>
    /\ UNCHANGED loading
    /\ UNCHANGED <<form, customerInfo, pipes>>
    /\ IF updateQuantityBadArgs(productId, currentQty, change)
       THEN /\ last' = [op |-> "updateQuantity", out |-> "badArgs",
                        args |-> <<productId, currentQty, change>>]
            /\ UNCHANGED <<items, storage, submitDisabled>>
       ELSE LET i == find(items, productId.s)
            IN IF i = 0
               THEN /\ last' = [op |-> "updateQuantity", out |-> "missing",
                                args |-> <<productId, currentQty, change>>]
                    /\ UNCHANGED <<items, storage, submitDisabled>>
               ELSE LET newQty == items[i].quantity + change.n
                    IN IF removesAt(newQty)
                       THEN /\ items' = filterOut(items, productId)
                            /\ updateCart(items')
                            /\ last' = [op |-> "updateQuantity", out |-> "removed",
                                        args |-> <<productId, currentQty, change>>]
                       ELSE /\ newQty <= MaxQty
                            /\ items' = [items EXCEPT ![i].quantity = newQty]
                            /\ updateCart(items')
                            /\ last' = [op |-> "updateQuantity", out |-> "set",
                                        args |-> <<productId, currentQty, change>>]

\* updateQuantity(productId, currentQty, change)
UpdateQuantity(productId, currentQty, change) ==
    /\ fx' = {}
    /\ steps' = <<>>
    /\ UNCHANGED loading
    /\ UNCHANGED <<form, customerInfo, pipes>>
    /\ IF updateQuantityBadArgs(productId, currentQty, change)
       THEN /\ last' = [op |-> "updateQuantity", out |-> "badArgs",
                                        args |-> <<productId, currentQty, change>>]
            /\ UNCHANGED <<items, storage, submitDisabled>>
       ELSE LET i == find(items, productId.s)
            IN IF i = 0
               THEN /\ last' = [op |-> "updateQuantity", out |-> "missing",
                                        args |-> <<productId, currentQty, change>>]
                    /\ UNCHANGED <<items, storage, submitDisabled>>
               ELSE LET newQty == currentQty.n + change.n
                    IN IF removesAt(newQty)
                       THEN /\ items' = filterOut(items, productId)
                            /\ updateCart(items')
                            /\ last' = [op |-> "updateQuantity", out |-> "removed",
                                        args |-> <<productId, currentQty, change>>]
                       ELSE /\ newQty <= MaxQty
                            /\ items' = [items EXCEPT ![i].quantity = newQty]
                            /\ updateCart(items')
                            /\ last' = [op |-> "updateQuantity", out |-> "set",
                                        args |-> <<productId, currentQty, change>>]

\* clearCart()
ClearCart ==
    /\ fx' = {}
    /\ steps' = <<>>
    /\ UNCHANGED loading
    /\ UNCHANGED <<form, customerInfo, pipes>>
    /\ items' = <<>>
    /\ updateCart(items')
    /\ last' = [op |-> "clearCart", out |-> "cleared", args |-> <<>>]

\* a click on an update-quantity button of the item list: the listener reads
\* the stored quantity and calls updateQuantity
ClickUpdateQuantity(id, change) ==
    /\ find(items, id) # 0
    /\ UpdateQuantity(Str(id), Num(items[find(items, id)].quantity), Num(change))

\* a click on a remove-item button of the item list
ClickRemoveItem(id) == RemoveItem(Str(id))

\* ------------------------------------------------------------------------
\* Product cards (products.js)
\* ------------------------------------------------------------------------

\* static products: the catalog
products ==
    <<Product(Str("1"), Str("Calabash Lamp 1"), Str("assets/lamp1-night.jpg"), Num(200), Undef),
      Product(Str("2"), Str("Calabash Lamp 2"), Str("assets/lamp2-day.jpg"), Num(200), Undef),
      Product(Str("3"), Str("Calabash Lamp 3"), Str("assets/lamp3-day.jpg"), Num(200), Undef)>>

\* the productId arguments of addToCart: ids of the catalog, an id it does
\* not have, the number 1 and undefined
ProductCardIds == {Str("1"), Str("2"), Str("3"), Str("999"), Num(1), Undef}

\* p.id == id: a number equals the string of its digits
looselyEqual(a, b) ==
    \/ a = b
    \/ a.t = "str" /\ b.t = "num" /\ a.s = DigitStr(b.n)
    \/ a.t = "num" /\ b.t = "str" /\ b.s = DigitStr(a.n)

\* the least place of a non-empty set of places
firstOf(places) == CHOOSE k \in places : \A l \in places : k <= l

\* mutant of findProductById: the ids are compared with == instead of ===
findProductByIdLoose(id) ==
    LET matches == {k \in 1..Len(products) : looselyEqual(products[k].id, id)}
    IN IF matches = {} THEN 0 ELSE firstOf(matches)

\* this.products.find(p => p.id === id): the place of the first match, 0
\* for undefined
findProductById(id) ==
    LET matches == {k \in 1..Len(products) : products[k].id = id}
    IN IF matches = {} THEN 0 ELSE firstOf(matches)

\* parseFloat(x): a number is kept, the digits a string starts with are
\* parsed, anything else gives NaN
parseFloat(x) ==
    CASE x.t = "num" -> x
      [] x.t = "str" -> (IF x.s = "100" THEN Num(100) ELSE NaN)
      [] OTHER -> NaN

\* normalizeProduct(product): a copy made through JSON, its id a string and
\* its price, when truthy, a number
normalizeProduct(product) ==
    [product EXCEPT !.id = Str(ToStr(product.id)),
                    !.price = IF Truthy(product.price)
                              THEN parseFloat(product.price) ELSE product.price]

\* addToCart(productId): the lookup, and for a product of the catalog the
\* 'cart:add' event, whose listener runs addItem before dispatchEvent returns
AddToCart(productId) ==
    /\ fx' = {}
    /\ UNCHANGED loading
    /\ UNCHANGED <<form, customerInfo, pipes>>
    /\ IF findProductById(productId) = 0
       THEN /\ last' = [op |-> "addToCart", out |-> "notFound", args |-> <<productId>>]
            /\ steps' = <<"consoleError">>
            /\ UNCHANGED <<items, storage, submitDisabled>>
       ELSE LET productCopy == normalizeProduct(products[findProductById(productId)])
                i == existingIndex(items, productCopy)
            IN /\ last' = [op |-> "addToCart", out |-> "dispatched",
                           args |-> <<productId, productCopy>>]
               /\ steps' = <<"cart:add", "addItem">>
               /\ IF addItemRejects(productCopy)
                  THEN UNCHANGED <<items, storage, submitDisabled>>
                  ELSE /\ i # 0 => items[i].quantity < MaxQty
                       /\ items' = addItemItems(items, productCopy)
                       /\ updateCart(items')

\* ------------------------------------------------------------------------
\* Checkout
\* ------------------------------------------------------------------------

\* an input or change event of a form field: the listener refreshes the
\* submit control
FormInput(f) ==
    /\ form' = f
    /\ submitDisabled' = buttonDisabled(items, f)
    /\ last' = [op |-> "input", out |-> "refreshed", args |-> <<>>]
    /\ fx' = {}
    /\ steps' = <<>>
    /\ UNCHANGED loading
    /\ UNCHANGED <<items, storage, customerInfo, pipes>>

\* what copyToClipboard finds in the browser: whether navigator.clipboard
\* exists, whether the context is secure, how writeText would go and how
\* execCommand('copy') would go
ClipboardEnvs ==
    [clipboard : BOOLEAN, secure : BOOLEAN,
     write : {"resolves", "rejects", "throws"},
     exec : {"true", "false", "throws"}]

\* the texts handed to copyToClipboard
ClipboardTexts == {"New Order Details: A", "New Order Details: B"}

\* mutant of usesClipboardApi: the context is not looked at
usesClipboardApiIgnoresContext(env) == env.clipboard

\* if (navigator.clipboard && window.isSecureContext)
usesClipboardApi(env) == env.clipboard /\ env.secure

\* copyToClipboard(text) up to the return of the promise executor: the call
\* it made and the state of the promise it returns
copyToClipboard(env) ==
    IF usesClipboardApi(env)
    THEN [effect |-> "clipboardWrite",
          settled |-> IF env.write = "throws" THEN "rejected" ELSE "pending"]
    ELSE [effect |-> "execCommand",
          settled |-> IF env.exec = "true" THEN "resolved" ELSE "rejected"]

\* the promise of navigator.clipboard.writeText once it has settled
writeTextSettled(env) == IF env.write = "resolves" THEN "resolved" ELSE "rejected"

\* the way the copy attempt goes before the handler returns
copyPath(env) ==
    IF usesClipboardApi(env)
    THEN (IF env.write = "throws" THEN "apiThrows" ELSE "apiPending")
    ELSE (CASE env.exec = "true" -> "fallbackOk"
            [] env.exec = "false" -> "fallbackFails"
            [] OTHER -> "fallbackThrows")

\* the ways the copy attempt of copyToClipboard can go before the handler
\* returns: the clipboard API is used and its promise is pending, the API
\* call throws, or the textarea fallback succeeds, fails or throws
CopyPaths == {copyPath(env) : env \in ClipboardEnvs}

\* copyToClipboard(text) called on its own
CopyToClipboard ==
    /\ last.op = "environment"
    /\ last' = [op |-> "copyToClipboard",
                out |-> copyToClipboard(last.args[1]).settled,
                args |-> last.args]
    /\ fx' = {copyToClipboard(last.args[1]).effect}
    /\ steps' = <<copyToClipboard(last.args[1]).effect, last.args[2]>>
    /\ UNCHANGED loading
    /\ UNCHANGED <<items, storage, form, customerInfo, submitDisabled, pipes>>

\* the promise of writeText settles and the promise of copyToClipboard
\* follows it
WriteTextSettles ==
    /\ last.op = "copyToClipboard"
    /\ last.out = "pending"
    /\ last' = [op |-> "writeTextSettled",
                out |-> writeTextSettled(last.args[1]),
                args |-> last.args]
    /\ UNCHANGED <<fx, steps, loading>>
    /\ UNCHANGED <<items, storage, form, customerInfo, submitDisabled, pipes>>

\* mutant of confirmEffects: the mail client is opened whatever the answer
confirmEffectsAlwaysNavigates(copied, confirmed) ==
    {IF copied THEN "confirmCopied" ELSE "confirmNotCopied", "mailto"}

\* the effects of the callback that runs once the copy attempt has settled:
\* the prompt, and the navigation when the user confirms
confirmEffects(copied, confirmed) ==
    {IF copied THEN "confirmCopied" ELSE "confirmNotCopied"}
        \cup (IF confirmed THEN {"mailto"} ELSE {})

\* the effect of calling copyToClipboard
copyEffects(path) ==
    IF path \in {"apiPending", "apiThrows"} THEN {"clipboardWrite"} ELSE {"execCommand"}

\* the call of copyToClipboard, as a step of the handler
copySteps(path) ==
    IF path \in {"apiPending", "apiThrows"} THEN <<"clipboardWrite">> ELSE <<"execCommand">>

\* mutant of confirmSteps: the mail client is opened before the prompt
confirmStepsNavigatesFirst(copied, confirmed) ==
    (IF confirmed THEN <<"mailto">> ELSE <<>>)
        \o <<IF copied THEN "confirmCopied" ELSE "confirmNotCopied">>
        \o <<"setTimeout">>

\* mutant of confirmSteps: the prompt of the then callback is shown whether
\* the copy succeeded or not
confirmStepsAlwaysClaimsCopied(copied, confirmed) ==
    <<"confirmCopied">>
        \o (IF confirmed THEN <<"mailto">> ELSE <<>>)
        \o <<"setTimeout">>

\* the callback that runs once the copy attempt has settled, step by step:
\* the prompt, the navigation when the user confirms, the resolve timer
confirmSteps(copied, confirmed) ==
    <<IF copied THEN "confirmCopied" ELSE "confirmNotCopied">>
        \o (IF confirmed THEN <<"mailto">> ELSE <<>>)
        \o <<"setTimeout">>

\* the decimal digits of a natural number
DigitChar(d) ==
    CASE d = 0 -> "0" [] d = 1 -> "1" [] d = 2 -> "2" [] d = 3 -> "3"
      [] d = 4 -> "4" [] d = 5 -> "5" [] d = 6 -> "6" [] d = 7 -> "7"
      [] d = 8 -> "8" [] OTHER -> "9"

RECURSIVE decimal(_)
decimal(n) ==
    IF n < 10 THEN DigitChar(n) ELSE decimal(n \div 10) \o DigitChar(n % 10)

\* x.toFixed(2) of an integer
toFixed2(n) ==
    IF n < 0 THEN "-" \o decimal(0 - n) \o ".00" ELSE decimal(n) \o ".00"

\* mutant of itemLine: an item without a price is rendered with the prices
\* of a free item
itemLineZeroForAbsent(item) ==
    [name |-> item.name,
     quantity |-> item.quantity,
     price |-> IF Truthy(item.price) THEN toFixed2(item.price.n) ELSE "0.00",
     total |-> IF Truthy(item.price)
               THEN toFixed2(item.price.n * item.quantity) ELSE "0.00"]

\* the lines formatOrderEmail writes for one item: its name, its quantity,
\* and what follows the euro sign on its Price and Total lines
itemLine(item) ==
    [name |-> item.name,
     quantity |-> item.quantity,
     price |-> IF Truthy(item.price) THEN toFixed2(item.price.n) ELSE "N/A",
     total |-> IF Truthy(item.price)
               THEN toFixed2(item.price.n * item.quantity) ELSE "N/A"]

\* formatOrderEmail(orderData): the body is built, or the TypeError of the
\* failing toFixed call is thrown
formatOrderEmail(its) ==
    IF formatThrows(its)
    THEN [threw |-> TRUE, error |-> "TypeError: item.price.toFixed is not a function",
          lines |-> <<>>]
    ELSE [threw |-> FALSE, error |-> "",
          lines |-> [i \in 1..Len(its) |-> itemLine(its[i])]]

\* mutant of sendOrderEmail: an exception of the formatter is swallowed and
\* the pipeline goes on
sendOrderEmailSwallowsFormatError(its) ==
    [settled |-> "pending", reason |-> ""]

\* sendOrderEmail(orderData) up to the return of the promise executor: an
\* exception of the formatter rejects the promise with that exception,
\* otherwise the copy has been started and the promise is pending
sendOrderEmail(its) ==
    IF formatOrderEmail(its).threw
    THEN [settled |-> "rejected", reason |-> formatOrderEmail(its).error]
    ELSE [settled |-> "pending", reason |-> ""]

\* a pipeline whose copy attempt has not settled yet
copyingPipe == [pc |-> "copying", answer |-> "none", navigated |-> FALSE]

\* mutant of promptedPipe: the resolve timer is started only when the user
\* confirms
promptedPipeNoTimerOnDecline(copied, confirmed) ==
    [pc |-> IF confirmed THEN "timer" ELSE "answered",
     answer |-> IF confirmed THEN "ok" ELSE "cancel",
     navigated |-> "mailto" \in confirmEffects(copied, confirmed)]

\* mutant of promptedPipe: a failed copy rejects the pipeline
promptedPipeRejectsOnCopyFailure(copied, confirmed) ==
    IF copied
    THEN [pc |-> "timer", answer |-> IF confirmed THEN "ok" ELSE "cancel",
          navigated |-> "mailto" \in confirmEffects(copied, confirmed)]
    ELSE [pc |-> "rejected", answer |-> "none", navigated |-> FALSE]

\* a pipeline after its prompt: the answer of the user, whether the mail
\* client was opened, and the one second timer running
promptedPipe(copied, confirmed) ==
    [pc |-> "timer",
     answer |-> IF confirmed THEN "ok" ELSE "cancel",
     navigated |-> "mailto" \in confirmEffects(copied, confirmed)]

\* mutant of submitOrderCatch: the failure callback clears the cart as the
\* success callback does
submitOrderCatchClearsCart ==
    /\ items' = <<>>
    /\ updateCart(items')
    /\ fx' = {"alert"}
    /\ steps' = <<"format", "alert">>
    /\ loading' = FALSE
    /\ UNCHANGED <<form, pipes>>

\* the catch callback of submitOrder: the submit control is enabled again
\* and the failure alert is shown
submitOrderCatch ==
    /\ submitDisabled' = FALSE
    /\ fx' = {"alert"}
    /\ steps' = <<"format", "alert">>
    /\ loading' = FALSE
    /\ UNCHANGED <<items, storage, form, pipes>>

\* the submit listener of the checkout form
submitHandler(opName, path, confirmed) ==
    /\ IF ~validateForm(form)
       THEN /\ last' = [op |-> opName, out |-> "invalid", args |-> <<>>]
            /\ fx' = {"validationErrors"}
            /\ steps' = <<"validationErrors">>
            /\ UNCHANGED loading
            /\ UNCHANGED <<items, storage, form, customerInfo, submitDisabled, pipes>>
       ELSE /\ customerInfo' = customerInfoFromForm(form)
            /\ IF sendOrderEmail(items).settled = "rejected"
               THEN /\ submitOrderCatch
                    /\ last' = [op |-> opName, out |-> "formatFailed",
                                args |-> <<sendOrderEmail(items).reason>>]
               ELSE /\ Len(pipes) < MaxPipes
                    /\ UNCHANGED <<items, storage, form>>
                    /\ submitDisabled' = TRUE
                    /\ last' = [op |-> opName,
                                out |-> IF items = <<>> THEN "startedEmpty" ELSE "started",
                                args |-> <<path, confirmed,
                                           formatOrderEmail(items).lines>>]
                    /\ IF path = "apiPending"
                       THEN /\ pipes' = Append(pipes, copyingPipe)
                            /\ fx' = copyEffects(path)
                            /\ steps' = <<"format">> \o copySteps(path)
                            /\ loading' = TRUE
                       ELSE /\ pipes' = Append(pipes, promptedPipe(path = "fallbackOk", confirmed))
                            /\ fx' = copyEffects(path)
                                       \cup confirmEffects(path = "fallbackOk", confirmed)
                            /\ steps' = <<"format">> \o copySteps(path)
                                           \o confirmSteps(path = "fallbackOk", confirmed)
                            /\ loading' = TRUE

\* a submit event the user raises through the submit control
SubmitClick(path, confirmed) ==
    /\ ~submitDisabled
    /\ checkValidity(form)
    /\ submitHandler("submit", path, confirmed)

\* checkout(): dispatches a submit event on the form
Checkout(path, confirmed) ==
    submitHandler("checkout", path, confirmed)

\* the promise of navigator.clipboard.writeText settles
ClipboardSettles(i, copied, confirmed) ==
    /\ i \in 1..Len(pipes)
    /\ pipes[i].pc = "copying"
    /\ pipes' = [pipes EXCEPT ![i] = promptedPipe(copied, confirmed)]
    /\ fx' = confirmEffects(copied, confirmed)
    /\ steps' = confirmSteps(copied, confirmed)
    /\ UNCHANGED loading
    /\ last' = [op |-> "clipboardSettled", out |-> IF copied THEN "copied" ELSE "failed",
                args |-> <<confirmed>>]
    /\ UNCHANGED <<items, storage, form, customerInfo, submitDisabled>>

\* mutant of TimerFires: the success callback leaves the customer info of
\* the order in place
TimerFiresKeepsCustomerInfo(i) ==
    /\ i \in 1..Len(pipes)
    /\ pipes[i].pc = "timer"
    /\ pipes' = SubSeq(pipes, 1, i - 1) \o SubSeq(pipes, i + 1, Len(pipes))
    /\ items' = <<>>
    /\ updateCart(items')
    /\ form' = EmptyForm
    /\ customerInfo' = customerInfo
    /\ fx' = {"successMessage"}
    /\ steps' = <<"resolve", "successMessage">>
    /\ loading' = FALSE
    /\ last' = [op |-> "resolved", out |-> "cleared", args |-> <<pipes[i], items, i>>]

\* mutant of TimerFires: the success callback clears the cart and the
\* customer info only when the mail client was opened
TimerFiresKeepsCartOnDecline(i) ==
    /\ i \in 1..Len(pipes)
    /\ pipes[i].pc = "timer"
    /\ pipes' = SubSeq(pipes, 1, i - 1) \o SubSeq(pipes, i + 1, Len(pipes))
    /\ items' = IF pipes[i].navigated THEN <<>> ELSE items
    /\ updateCart(items')
    /\ form' = EmptyForm
    /\ customerInfo' = IF pipes[i].navigated THEN createDefaultCustomerInfo ELSE customerInfo
    /\ fx' = {"successMessage"}
    /\ steps' = <<"resolve", "successMessage">>
    /\ loading' = FALSE
    /\ last' = [op |-> "resolved", out |-> "cleared", args |-> <<pipes[i], items, i>>]

\* the one second timer of sendOrderEmail fires: the promise resolves and
\* the success callback of submitOrder runs
TimerFires(i) ==
    /\ i \in 1..Len(pipes)
    /\ pipes[i].pc = "timer"
    /\ pipes' = SubSeq(pipes, 1, i - 1) \o SubSeq(pipes, i + 1, Len(pipes))
    /\ items' = <<>>
    /\ updateCart(items')
    /\ form' = EmptyForm
    /\ customerInfo' = createDefaultCustomerInfo
    /\ fx' = {"successMessage"}
    /\ steps' = <<"resolve", "successMessage">>
    /\ loading' = FALSE
    /\ last' = [op |-> "resolved", out |-> "cleared", args |-> <<pipes[i], items, i>>]

\* ------------------------------------------------------------------------
\* The cart that keeps total and count in fields (unnamed/part_001)
\* ------------------------------------------------------------------------

\* Number(x) on the values a quantity of this cart can take
quantityNumber(x) == IF x = Str("11") THEN Num(11) ELSE ToNumber(x)

\* String(x) of a number, of a string, and of the other values
jsString(x) ==
    CASE x.t = "num" -> (IF x.n < 0 THEN "-" \o decimal(0 - x.n) ELSE decimal(x.n))
      [] x.t = "str" -> x.s
      [] OTHER -> ToStr(x)

\* a + b: the sum of two numbers, the concatenation when one of them is a
\* string, NaN when undefined or NaN meets a number
jsAdd(a, b) ==
    IF a.t = "num" /\ b.t = "num" THEN Num(a.n + b.n)
    ELSE IF a.t = "str" \/ b.t = "str" THEN Str(jsString(a) \o jsString(b))
    ELSE NaN

\* a * b
jsMultiply(a, b) ==
    IF quantityNumber(a).t = "num" /\ quantityNumber(b).t = "num"
    THEN Num(quantityNumber(a).n * quantityNumber(b).n)
    ELSE NaN

\* newQty <= 0
notPositive(x) == quantityNumber(x).t = "num" /\ quantityNumber(x).n <= 0

\* this.items.reduce((sum, item) => sum + item.quantity, 0)
RECURSIVE cachedCountFrom(_, _)
cachedCountFrom(its, sum) ==
    IF its = <<>> THEN sum
    ELSE cachedCountFrom(Tail(its), jsAdd(sum, Head(its).quantity))

\* this.items.reduce((sum, item) => sum + (item.price ? item.price * item.quantity : 0), 0)
RECURSIVE cachedTotalFrom(_, _)
cachedTotalFrom(its, sum) ==
    IF its = <<>> THEN sum
    ELSE cachedTotalFrom(Tail(its),
             jsAdd(sum, IF Truthy(Head(its).price)
                        THEN jsMultiply(Head(its).price, Head(its).quantity)
                        ELSE Num(0)))

\* updateCart() of this cart: count and total are computed into the fields
cachedUpdateCart(c) ==
    [items |-> c.items,
     total |-> cachedTotalFrom(c.items, Num(0)),
     count |-> cachedCountFrom(c.items, Num(0))]

\* the places of the items of an id
cachedPlaces(its, productId) == {k \in 1..Len(its) : Str(its[k].id) = productId}

\* addItem(product) of this cart, for a product that is an object or falsy
cachedAddItem(c, product) ==
    IF ~Truthy(product) THEN c
    ELSE LET id == Str(ToStr(product.id))
             price == IF Truthy(product.price) THEN parseFloat(product.price) ELSE Undef
             at == cachedPlaces(c.items, id)
         IN IF at # {}
            THEN cachedUpdateCart(
                   [c EXCEPT !.items[firstOf(at)].quantity =
                                 jsAdd(IF Truthy(@) THEN @ ELSE Num(1), Num(1))])
            ELSE cachedUpdateCart(
                   [c EXCEPT !.items =
                       Append(@, [id |-> id.s, name |-> product.name,
                                  image |-> product.image, price |-> price,
                                  quantity |-> Num(1)])])

\* removeItem(productId) of this cart
cachedRemoveItem(c, productId) ==
    cachedUpdateCart(
        [c EXCEPT !.items = SelectSeq(@, LAMBDA item : Str(item.id) # productId)])

\* updateQuantity(productId, currentQty, change) of this cart
cachedUpdateQuantity(c, productId, currentQty, change) ==
    LET newQty == jsAdd(currentQty, change)
        at == cachedPlaces(c.items, productId)
    IN IF notPositive(newQty) THEN cachedRemoveItem(c, productId)
       ELSE IF at # {}
            THEN cachedUpdateCart([c EXCEPT !.items[firstOf(at)].quantity = newQty])
            ELSE c

\* clearCart() of this cart
cachedClearCart(c) == cachedUpdateCart([c EXCEPT !.items = <<>>])

\* ------------------------------------------------------------------------
\* Specification
\* ------------------------------------------------------------------------

\* the public operations of the cart, over every input of the model
Next ==
    \/ \E product \in ProductInputs : AddItem(product)
    \/ \E productId \in ProductIdArgs : RemoveItem(productId)
    \/ \E args \in UpdateQuantityArgs : UpdateQuantity(args[1], args[2], args[3])
    \/ ClearCart

Spec == Init /\ [][Next]_vars

\* the cart of a storefront session together with the checkout form and the
\* submission pipeline
CheckoutNext ==
    \/ \E product \in CheckoutProducts : AddItem(product)
    \/ \E id \in {"1", "2"} : ClickRemoveItem(id)
    \/ \E id \in {"1", "2"}, change \in {1, -1} : ClickUpdateQuantity(id, change)
    \/ ClearCart
    \/ \E f \in FormInputs : FormInput(f)
    \/ \E path \in CopyPaths, confirmed \in BOOLEAN : SubmitClick(path, confirmed)
    \/ \E path \in CopyPaths, confirmed \in BOOLEAN : Checkout(path, confirmed)
    \/ \E i \in 1..MaxPipes, copied \in BOOLEAN, confirmed \in BOOLEAN :
          ClipboardSettles(i, copied, confirmed)
    \/ \E i \in 1..MaxPipes : TimerFires(i)

CheckoutSpec == Init /\ [][CheckoutNext]_vars

\* the checkout of one product, followed to its end
FairNext ==
    \/ AddItem(Product(Str("1"), Str("A"), Str("a.jpg"), Num(100), Undef))
    \/ \E f \in {EmptyForm, ValidForm} : FormInput(f)
    \/ \E path \in CopyPaths, confirmed \in BOOLEAN : SubmitClick(path, confirmed)
    \/ \E path \in CopyPaths, confirmed \in BOOLEAN : Checkout(path, confirmed)
    \/ \E i \in 1..MaxPipes, copied \in BOOLEAN, confirmed \in BOOLEAN :
          ClipboardSettles(i, copied, confirmed)
    \/ \E i \in 1..MaxPipes : TimerFires(i)

\* the clipboard promise of a pipeline settles and its prompt is answered,
\* and a timer that was started fires
FairCheckoutSpec ==
    /\ Init
    /\ [][FairNext]_vars
    /\ \A i \in 1..MaxPipes :
          /\ WF_vars(\E copied \in BOOLEAN, confirmed \in BOOLEAN :
                        ClipboardSettles(i, copied, confirmed))
          /\ WF_vars(TimerFires(i))

\* the cart operations that keep or change the item list, over three products
OrderNext ==
    \/ \E product \in OrderProducts : AddItem(product)
    \/ \E id \in {"1", "2", "3"} : RemoveItem(Str(id))
    \/ \E id \in {"1", "2", "3"}, q \in 1..MaxQty, change \in {1, -1} :
          UpdateQuantity(Str(id), Num(q), Num(change))

OrderSpec == Init /\ [][OrderNext]_vars

\* the product cards and the item list of the page
StorefrontNext ==
    \/ \E productId \in ProductCardIds : AddToCart(productId)
    \/ \E id \in {"1", "2", "3"} : ClickRemoveItem(id)
    \/ \E id \in {"1", "2", "3"}, change \in {1, -1} : ClickUpdateQuantity(id, change)

StorefrontSpec == Init /\ [][StorefrontNext]_vars

\* copyToClipboard in every browser environment
ClipboardNext ==
    \/ CopyToClipboard
    \/ WriteTextSettles

\* a page with an untouched cart, a browser environment and a text to copy
ClipboardInit ==
    /\ items = <<>>
    /\ storage = NoSnapshot
    /\ form = EmptyForm
    /\ customerInfo = createDefaultCustomerInfo
    /\ submitDisabled = buttonDisabled(<<>>, EmptyForm)
    /\ pipes = <<>>
    /\ \E env \in ClipboardEnvs, text \in ClipboardTexts :
          last = [op |-> "environment", out |-> "given", args |-> <<env, text>>]
    /\ fx = {}
    /\ steps = <<>>
    /\ loading = FALSE

ClipboardSpec == ClipboardInit /\ [][ClipboardNext]_vars

\* the state a constructor leaves over the stored value raw
constructed(raw) ==
    LET loaded == loadCart(raw)
    IN /\ items = loaded.items
       /\ storage = loaded.storage
       /\ form = EmptyForm
       /\ customerInfo = createDefaultCustomerInfo
       /\ submitDisabled = buttonDisabled(loaded.items, EmptyForm)
       /\ pipes = <<>>
       /\ last = [op |-> "constructor", out |-> loaded.out, args |-> <<raw>>]
       /\ fx = {}
       /\ steps = <<>>
       /\ loading = FALSE

\* a cart constructed over whatever localStorage holds
SessionInit == \E raw \in StoredValues : constructed(raw)

\* the page is loaded again: a new cart is constructed over the value the
\* old one left in localStorage, and the pipelines of the old page are gone
Reload ==
    LET loaded == loadCart(storage)
    IN /\ items' = loaded.items
       /\ storage' = loaded.storage
       /\ form' = EmptyForm
       /\ customerInfo' = createDefaultCustomerInfo
       /\ submitDisabled' = buttonDisabled(loaded.items, EmptyForm)
       /\ pipes' = <<>>
       /\ last' = [op |-> "constructor", out |-> loaded.out, args |-> <<storage>>]
       /\ fx' = {}
       /\ steps' = <<>>
       /\ loading' = FALSE

\* a session over a stored value: the cart, the checkout and page reloads
SessionNext ==
    \/ \E product \in SessionProducts : AddItem(product)
    \/ \E id \in {"1", "2"} : ClickRemoveItem(id)
    \/ \E id \in {"1", "2"}, change \in {1, -1} : ClickUpdateQuantity(id, change)
    \/ ClearCart
    \/ \E f \in SessionForms : FormInput(f)
    \/ \E path \in CopyPaths, confirmed \in BOOLEAN : SubmitClick(path, confirmed)
    \/ \E path \in CopyPaths, confirmed \in BOOLEAN : Checkout(path, confirmed)
    \/ \E i \in 1..MaxPipes, copied \in BOOLEAN, confirmed \in BOOLEAN :
          ClipboardSettles(i, copied, confirmed)
    \/ \E i \in 1..MaxPipes : TimerFires(i)
    \/ Reload

SessionSpec == SessionInit /\ [][SessionNext]_vars

\* ------------------------------------------------------------------------
\* The order validator of the email service (emailService.js)
\* ------------------------------------------------------------------------

\* a string value, as the sequence of its characters
Text(cs) == [t |-> "text", cs |-> cs]

\* a missing value
absent(v) == v = Undef \/ v = Null

\* a product record of an order
OrderItem(id, name, image, price, quantity) ==
    [t |-> "obj", id |-> id, name |-> name, image |-> image, price |-> price,
     quantity |-> quantity]

\* a customer record of an order
Customer(name, email, acceptedTos, address) ==
    [t |-> "obj", name |-> name, email |-> email, acceptedTos |-> acceptedTos,
     address |-> address]

\* an address record of a customer
Address(street, city, postal, country) ==
    [t |-> "obj", street |-> street, city |-> city, postal |-> postal,
     country |-> country]

\* an order record
Order(its, customer, orderTotal, timestamp) ==
    [items |-> its, customer |-> customer, total |-> orderTotal, timestamp |-> timestamp]

\* the customer and the product of the tests of the email service
JohnDoe ==
    Customer(Text(<<"a", " ", "a">>), Text(<<"a", "@", "a", ".", "a">>), TRUE,
             Address(Text(<<"a">>), Text(<<"a">>), Text(<<"a">>), Text(<<"a">>)))

TestProduct == OrderItem(Text(<<"a">>), Text(<<"a">>), Text(<<"a">>), Num(10), Num(1))

\* the order records the validator is given
ValidatorOrders ==
    {Order(its, customer, orderTotal, timestamp) :
        its \in {<<>>, <<TestProduct>>, <<TestProduct, TestProduct>>},
        customer \in {Undef, Null, JohnDoe},
        orderTotal \in {Num(-10), Num(0), Num(10)},
        timestamp \in {Undef, Null, Str("2024-01-01T00:00:00.000Z")}}

\* mutant of validateOrderData: the sign of the total is not looked at
validateOrderDataAcceptsNegativeTotal(o) ==
    IF \/ Len(o.items) = 0
       \/ absent(o.customer)
       \/ absent(o.timestamp)
    THEN [threw |-> TRUE, error |-> "EmailServiceError"]
    ELSE [threw |-> FALSE, error |-> ""]

\* validateOrderData(orderData): the structural gate of the dispatcher; it
\* throws an EmailServiceError or returns
validateOrderData(o) ==
    IF \/ Len(o.items) = 0
       \/ absent(o.customer)
       \/ o.total.n < 0
       \/ absent(o.timestamp)
    THEN [threw |-> TRUE, error |-> "EmailServiceError"]
    ELSE [threw |-> FALSE, error |-> ""]

\* a call of EmailService.validateOrderData on the order record at hand
ValidateOrderData(o) ==
    /\ last = [op |-> "order", out |-> "given", args |-> <<o>>]
    /\ last' = [op |-> "validateOrderData",
                out |-> IF validateOrderData(o).threw THEN "threw" ELSE "returned",
                args |-> <<o, validateOrderData(o)>>]
    /\ fx' = {}
    /\ steps' = <<>>
    /\ UNCHANGED loading
    /\ UNCHANGED <<items, storage, form, customerInfo, submitDisabled, pipes>>

\* ------------------------------------------------------------------------
\* The input sanitizer (sanitizer.js) and sanitizeOrderData (emailService.js)
\* ------------------------------------------------------------------------

\* the characters of the sanitizer's inputs: a letter, a blank, the two
\* brackets of a tag and, for the 'javascript:' scheme, its first and its
\* last character
SanitizerChars == {"a", " ", "<", ">", "j", ":"}

\* the texts of at most MaxLen characters
SanitizerTexts == UNION {[1..n -> SanitizerChars] : n \in 0..MaxLen}

\* one pass that removes every tag: the first '<' that has a '>' after it,
\* up to the first such '>', and so on in the rest
RECURSIVE stripTags(_)
stripTags(cs) ==
    LET opens == {i \in 1..Len(cs) : cs[i] = "<" /\ \E k \in i + 1..Len(cs) : cs[k] = ">"}
    IN IF opens = {} THEN cs
       ELSE LET i == CHOOSE x \in opens : \A y \in opens : x <= y
                j == CHOOSE x \in i + 1..Len(cs) :
                        cs[x] = ">" /\ \A y \in i + 1..x - 1 : cs[y] # ">"
            IN SubSeq(cs, 1, i - 1) \o stripTags(SubSeq(cs, j + 1, Len(cs)))

\* one pass that removes every occurrence of the scheme, left to right
RECURSIVE stripScheme(_)
stripScheme(cs) ==
    IF Len(cs) < 2 THEN cs
    ELSE IF cs[1] = "j" /\ cs[2] = ":" THEN stripScheme(SubSeq(cs, 3, Len(cs)))
    ELSE <<cs[1]>> \o stripScheme(Tail(cs))

\* the passes repeated until nothing is left to remove
RECURSIVE stripAll(_)
stripAll(cs) ==
    LET once == stripScheme(stripTags(cs))
    IN IF once = cs THEN cs ELSE stripAll(once)

\* String(value) for the values of the model; a missing value is ''
asText(v) ==
    IF absent(v) THEN <<>>
    ELSE IF v.t = "num" THEN <<DigitStr(v.n)>>
    ELSE v.cs

\* mutant of sanitizeString: each pattern is removed in one pass only
sanitizeStringOnePass(v) == trim(stripTags(stripScheme(asText(v))))

\* InputSanitizer.sanitizeString(value)
sanitizeString(v) == trim(stripAll(asText(v)))

\* String.prototype.toLowerCase
toLowerCase(cs) == [i \in 1..Len(cs) |-> IF cs[i] = "A" THEN "a" ELSE cs[i]]

\* what a sanitizer returns, and the SanitizationError it throws
returned(value) == [threw |-> FALSE, value |-> value]

SanitizationError(field) == [threw |-> TRUE, error |-> "SanitizationError", field |-> field]

\* InputSanitizer.sanitizeEmail(value)
sanitizeEmail(v) ==
    LET email == toLowerCase(sanitizeString(v))
    IN IF email # <<>> /\ emailRegex(email)
       THEN returned(Text(email))
       ELSE SanitizationError("email")

\* InputSanitizer.validateRequired(value, fieldName)
validateRequired(v, fieldName) ==
    IF sanitizeString(v) = <<>>
    THEN SanitizationError(fieldName)
    ELSE returned(Text(sanitizeString(v)))

\* the first error among results, or the record build makes of their values
firstError(results, build) ==
    IF \E i \in 1..Len(results) : results[i].threw
    THEN results[CHOOSE i \in 1..Len(results) :
                    results[i].threw /\ \A k \in 1..i - 1 : ~results[k].threw]
    ELSE returned(build)

\* InputSanitizer.sanitizeProduct(product)
sanitizeProduct(p) ==
    IF absent(p) THEN SanitizationError("product")
    ELSE LET id == validateRequired(p.id, "id")
             name == validateRequired(p.name, "name")
             image == validateRequired(p.image, "image")
         IN firstError(<<id, name, image>>,
                OrderItem(id.value, name.value, image.value,
                          IF p.price.t = "num" /\ p.price.n > 0 THEN p.price ELSE Undef,
                          IF absent(p.quantity) THEN Num(1) ELSE p.quantity))

\* InputSanitizer.sanitizeCustomerInfo(customer)
sanitizeCustomerInfo(c) ==
    IF absent(c) THEN SanitizationError("customer")
    ELSE LET name == validateRequired(c.name, "name")
             email == sanitizeEmail(c.email)
         IN IF name.threw THEN name
            ELSE IF email.threw THEN email
            ELSE IF c.acceptedTos # TRUE THEN SanitizationError("acceptedTos")
            ELSE IF absent(c.address) THEN SanitizationError("address")
            ELSE LET street == validateRequired(c.address.street, "street")
                     city == validateRequired(c.address.city, "city")
                     postal == validateRequired(c.address.postal, "postal")
                     country == validateRequired(c.address.country, "country")
                 IN firstError(<<street, city, postal, country>>,
                        Customer(name.value, email.value, TRUE,
                                 Address(street.value, city.value, postal.value,
                                         country.value)))

\* EmailService.sanitizeOrderData(orderData)
sanitizeOrderData(o) ==
    LET sanitized == [i \in 1..Len(o.items) |-> sanitizeProduct(o.items[i])]
        customer == sanitizeCustomerInfo(o.customer)
    IN firstError(sanitized \o <<customer>>,
           Order([i \in 1..Len(o.items) |-> sanitized[i].value], customer.value,
                 o.total, o.timestamp))

\* the texts an email field is given
EmailTexts ==
    {<<"a", "@", "a", ".", "a">>, <<"A", "@", "a", ".", "A">>,
     <<" ", "a", "@", "a", ".", "a", " ">>, <<"<", "a", ">", "a", "@", "a", ".", "a">>,
     <<"j", "j", ":", ":", "a", "@", "a", ".", "a">>,
     <<"a", "@", "a">>, <<"@", "a", ".", "a">>, <<>>}

\* the order records the sanitizer is given: the order of the tests with one
\* part replaced
SanitizerOrders ==
    LET ts == Str("2024-01-01T00:00:00.000Z")
        one(item, customer) == Order(<<item>>, customer, Num(10), ts)
    IN {one(TestProduct, [JohnDoe EXCEPT !.name = Text(cs)]) : cs \in SanitizerTexts}
       \cup {one([TestProduct EXCEPT !.name = Text(cs)], JohnDoe) : cs \in SanitizerTexts}
       \cup {one([TestProduct EXCEPT !.price = price, !.quantity = quantity], JohnDoe) :
                price \in {Undef, Num(0), Num(-10), Num(10)},
                quantity \in {Undef, Num(1), Num(2)}}
       \cup {one(TestProduct, [JohnDoe EXCEPT !.email = Text(cs)]) : cs \in EmailTexts}
       \cup {one(TestProduct, [JohnDoe EXCEPT !.acceptedTos = FALSE]),
             one(TestProduct, [JohnDoe EXCEPT !.address = Undef]),
             one(TestProduct, [JohnDoe EXCEPT !.address.city = Text(<<" ">>)]),
             one(TestProduct, [JohnDoe EXCEPT !.email = Null]),
             one([TestProduct EXCEPT !.id = Num(1)], JohnDoe),
             one([TestProduct EXCEPT !.image = Undef], JohnDoe),
             one(Null, JohnDoe),
             Order(<<TestProduct, [TestProduct EXCEPT !.name = Text(<<"<", "a", ">">>)]>>,
                   JohnDoe, Num(10), ts)}

\* a call of EmailService.sanitizeOrderData on o, a record that was made
\* from the record origin
sanitizeCall(o, origin) ==
    /\ last' = [op |-> "sanitizeOrderData",
                out |-> IF sanitizeOrderData(o).threw THEN "threw" ELSE "returned",
                args |-> <<o, sanitizeOrderData(o), origin>>]
    /\ fx' = {}
    /\ steps' = <<>>
    /\ UNCHANGED loading
    /\ UNCHANGED <<items, storage, form, customerInfo, submitDisabled, pipes>>

\* sanitizeOrderData is called on the order record at hand
SanitizeOrderData(o) ==
    /\ last = [op |-> "order", out |-> "given", args |-> <<o>>]
    /\ sanitizeCall(o, o)

\* sanitizeOrderData is called on the record its first call returned
SanitizeAgain ==
    /\ last.op = "sanitizeOrderData"
    /\ last.out = "returned"
    /\ last.args[1] = last.args[3]
    /\ sanitizeCall(last.args[2].value, last.args[3])

\* the static helpers of the email service, called on a page whose cart is
\* not touched
ServiceNext ==
    \/ last.op = "order" /\ ValidateOrderData(last.args[1])
    \/ last.op = "order" /\ SanitizeOrderData(last.args[1])
    \/ SanitizeAgain

\* a page with an untouched cart and an order record at hand
ServiceInit ==
    /\ items = <<>>
    /\ storage = NoSnapshot
    /\ form = EmptyForm
    /\ customerInfo = createDefaultCustomerInfo
    /\ submitDisabled = buttonDisabled(<<>>, EmptyForm)
    /\ pipes = <<>>
    /\ \E o \in ValidatorOrders \cup SanitizerOrders :
          last = [op |-> "order", out |-> "given", args |-> <<o>>]
    /\ fx = {}
    /\ steps = <<>>
    /\ loading = FALSE

ServiceSpec == ServiceInit /\ [][ServiceNext]_vars

\* ------------------------------------------------------------------------
\* Properties
\* ------------------------------------------------------------------------

\* the positions of the items with the given id
positionsOfId(its, id) == {i \in 1..Len(its) : its[i].id = id}

\* the sum of the quantities, by index
RECURSIVE sumQuantities(_, _)
sumQuantities(its, n) ==
    IF n = 0 THEN 0 ELSE sumQuantities(its, n - 1) + its[n].quantity

\* an item has a price when a number is stored for it; undefined (and the
\* not-a-number value) stand for no price
pricePresent(item) == item.price.t = "num"

\* the sum of price times quantity over the items that have a price, by index
RECURSIVE sumPrices(_, _)
sumPrices(its, n) ==
    IF n = 0 THEN 0
    ELSE sumPrices(its, n - 1)
           + (IF pricePresent(its[n]) THEN its[n].price.n * its[n].quantity ELSE 0)

\* the item list without its i-th entry
without(its, i) == SubSeq(its, 1, i - 1) \o SubSeq(its, i + 1, Len(its))

\* the effects a checkout has on the clipboard, the user and the mail client
CheckoutEffects ==
    {"clipboardWrite", "execCommand", "confirmCopied", "confirmNotCopied", "mailto"}

\* C1: an accepted addItem whose normalised id is already in the cart adds 1
\* to that item's quantity and adds no entry; otherwise it appends one item
\* of quantity 1; either way the product's own quantity field is ignored and
\* count grows by exactly 1.
C1_AddItemAddsOneUnit ==
    [][(/\ last'.op = "addItem"
        /\ AddItem(last'.args[1])
        /\ ~addItemRejects(last'.args[1])) =>
             LET product == last'.args[1]
                 id == ToStr(product.id)
                 at == positionsOfId(items, id)
             IN /\ count(items') = count(items) + 1
                /\ IF at # {}
                   THEN /\ Len(items') = Len(items)
                        /\ \A i \in 1..Len(items) :
                              items'[i] = IF i \in at
                                          THEN [items[i] EXCEPT !.quantity = @ + 1]
                                          ELSE items[i]
                   ELSE /\ Len(items') = Len(items) + 1
                        /\ SubSeq(items', 1, Len(items)) = items
                        /\ items'[Len(items')].id = id
                        /\ items'[Len(items')].quantity = 1]_vars

\* C1 witness: a product given as id 1 (a number) with a quantity field of 5
\* was merged into the item "1", which now has quantity 2
C1_Witness ==
    /\ last.op = "addItem" /\ last.out = "merged"
    /\ last.args[1].id = Num(1) /\ last.args[1].quantity = Num(5)
    /\ \E i \in 1..Len(items) : items[i].id = "1" /\ items[i].quantity = 2

\* C2: no two items of the cart share an id.
C2_NoDuplicateIds ==
    \A i, j \in 1..Len(items) : i # j => items[i].id # items[j].id

\* C2 witness: two items are in the cart and the last product, given with a
\* numeric id, was merged into one of them
C2_Witness ==
    /\ Len(items) = 2
    /\ last.op = "addItem" /\ last.out = "merged" /\ last.args[1].id.t = "num"

\* C3: every item of the cart has quantity >= 1.
C3_QuantityAtLeastOne ==
    \A i \in 1..Len(items) : items[i].quantity >= 1

\* C3 witness: updateQuantity was called with a new quantity below zero on an
\* item of the cart and the item is gone
C3_Witness ==
    /\ last.op = "updateQuantity" /\ last.out = "removed"
    /\ last.args[2].n + last.args[3].n < 0
    /\ positionsOfId(items, last.args[1].s) = {}
    /\ items # <<>>

\* C4: total is the sum of price * quantity over the items that have a price;
\* items without a price contribute 0.
C4_TotalIsSumOfPrices ==
    total(items) = sumPrices(items, Len(items))

\* C4 witness: an item without a price next to a priced item of quantity 2
C4_Witness ==
    /\ Len(items) = 2
    /\ \E i, j \in 1..Len(items) :
          /\ items[i].price = Undef
          /\ items[j].price = Num(100) /\ items[j].quantity = 2
    /\ total(items) = 200

\* C5: total >= 0 in every reachable state, whatever products addItem
\* accepted.
C5_TotalNonNegative == total(items) >= 0

C7_EmptyCartCheckoutRejected ==
    [][(/\ items = <<>>
        /\ \E path \in CopyPaths, confirmed \in BOOLEAN :
              SubmitClick(path, confirmed) \/ Checkout(path, confirmed))
       => (fx' \cap CheckoutEffects = {} /\ pipes' = pipes)]_vars

\* C8: addItem with a missing or non-object product, or with a product
\* lacking id, name or image, changes neither the item list nor count, total
\* or the saved snapshot, and returns normally.
C8_InvalidProductIgnored ==
    [][(/\ last'.op = "addItem"
        /\ AddItem(last'.args[1])
        /\ LET product == last'.args[1]
           IN \/ product.t # "obj"
              \/ product.id = Undef
              \/ product.name = Undef
              \/ product.image = Undef)
          => /\ items' = items
             /\ count(items') = count(items)
             /\ total(items') = total(items)
             /\ storage' = storage
             /\ last'.out = "rejected"]_vars

\* C8 witness: a product without image was handed to a non-empty cart
C8_Witness ==
    /\ last.op = "addItem" /\ last.out = "rejected"
    /\ last.args[1].t = "obj" /\ last.args[1].image = Undef
    /\ last.args[1].id # Undef /\ last.args[1].name # Undef
    /\ items # <<>>
    /\ storage.has

\* C9: for an item of the cart at quantity q, updateQuantity(id, q, -q)
\* removes exactly that item: the length drops by 1, count drops by q and the
\* other items stay as they were.
C9_ZeroFloorRemoval ==
    [][\A i \in 1..Len(items) :
          LET q == items[i].quantity
          IN UpdateQuantity(Str(items[i].id), Num(q), Num(0 - q)) =>
                /\ Len(items') = Len(items) - 1
                /\ count(items') = count(items) - q
                /\ items' = without(items, i)]_vars

\* C9 witness: updateQuantity(id, 2, -2) removed the first of two items
C9_Witness ==
    /\ last.op = "updateQuantity" /\ last.out = "removed"
    /\ last.args[2] = Num(2) /\ last.args[3] = Num(-2)
    /\ Len(items) = 1
    /\ items[1].id # last.args[1].s
    /\ items[1].id = "2"

\* C10: updateQuantity changes neither the item list nor the saved snapshot
\* when an argument has the wrong type or the id matches no item, whatever
\* currentQty + change is.
C10_UpdateQuantityNoOp ==
    [][(/\ last'.op = "updateQuantity"
        /\ UpdateQuantity(last'.args[1], last'.args[2], last'.args[3])
        /\ LET args == last'.args
           IN \/ args[1].t # "str"
              \/ args[2].t # "num"
              \/ args[3].t # "num"
              \/ positionsOfId(items, args[1].s) = {})
          => (items' = items /\ storage' = storage)]_vars

\* C10 witness: updateQuantity was called for an id that is not in the cart
\* with a new quantity of zero or less, on a cart that was never saved
C10_Witness ==
    /\ last.op = "updateQuantity" /\ last.out = "missing"
    /\ last.args[2].n + last.args[3].n <= 0
    /\ storage = NoSnapshot

\* C11: removeItem(id) deletes exactly the item whose id is the given string
\* and leaves every other item as it was; when no item has that id the item
\* list is unchanged and the call returns normally.
C11_RemoveItemFrame ==
    [][(/\ last'.op = "removeItem"
        /\ RemoveItem(last'.args[1]))
       => LET at == {i \in 1..Len(items) : Str(items[i].id) = last'.args[1]}
          IN /\ at = {} => (items' = items /\ last'.out = "absent")
             /\ at # {} => /\ Cardinality(at) = 1
                           /\ \A i \in at : items' = without(items, i)
                           /\ last'.out = "removed"]_vars

\* C11 witness: removeItem took the first of two items out and the other one
\* is still there with its quantity of 2
C11_Witness ==
    /\ last.op = "removeItem" /\ last.out = "removed"
    /\ last.args[1] = Str("1")
    /\ Len(items) = 1
    /\ items[1].id = "2" /\ items[1].quantity = 2

\* C12: right after every accepted addItem, every removeItem, every
\* updateQuantity that changes the cart and every clearCart, the one after a
\* successful checkout included, the value stored under the key 'cart' is the
\* serialization of the current item list.
C12_SavedAfterEveryMutation ==
    (\/ last.op = "addItem" /\ last.out # "rejected"
     \/ last.op = "removeItem"
     \/ last.op = "updateQuantity" /\ last.out \in {"removed", "set"}
     \/ last.op = "clearCart"
     \/ last.op = "resolved")
    => (storage.has /\ storage.json = stringify(items))

\* C12 witness: an accepted addItem has put a second item into the cart and
\* the stored text lists both, the price that is not a number as null
C12_Witness ==
    /\ last.op = "addItem" /\ last.out # "rejected"
    /\ Len(items) = 2
    /\ items[2].price = NaN
    /\ storage.has /\ Len(storage.json) = 2
    /\ storage.json[2].price = Null

\* a well-formed item list: every record has a non-empty id, name and image,
\* a price that is absent or a number that is not negative and a quantity of
\* at least 1, and no id repeats
WellFormed(its) ==
    /\ \A i \in 1..Len(its) :
          /\ its[i].id # ""
          /\ its[i].name.t = "str" /\ its[i].name.s # ""
          /\ its[i].image.t = "str" /\ its[i].image.s # ""
          /\ \/ its[i].price = Undef
             \/ its[i].price.t = "num" /\ its[i].price.n >= 0
          /\ its[i].quantity >= 1
    /\ \A i, j \in 1..Len(its) : its[i].id = its[j].id => i = j

\* a stored value that local storage answers with, that parses and that is
\* an array
StoredArray(raw) == raw.has /\ "json" \in DOMAIN raw

\* a stored array that is a well-formed sequence of item records
WellFormedSnapshot(json) ==
    /\ \A i \in 1..Len(json) : json[i] # Null
    /\ WellFormed(parse(json))

\* C13: for a well-formed item list, saving it and then loading it into a
\* new cart gives an item list equal to the saved one: same items, same
\* order, same quantities, price present or absent as saved.
C13_SaveLoadRoundTrip ==
    [][(/\ last'.op = "constructor"
        /\ Reload
        /\ WellFormed(items)
        /\ storage = setItem(items))
       => (items' = items /\ last'.out = "restored")]_vars

\* C13 witness: a cart was constructed over the text an earlier cart saved
\* for a well-formed list of two items, the first without a price and the
\* second of quantity 2, and holds that list
C13_Witness ==
    /\ last.op = "constructor" /\ last.out = "restored"
    /\ WellFormed(items)
    /\ last.args[1] = setItem(items)
    /\ Len(items) = 2
    /\ items[1].id = "2" /\ items[1].price = Undef
    /\ items[2].id = "1" /\ items[2].quantity = 2

\* C14: when the stored value is missing, does not parse or parses to
\* something that is not an array, the cart starts with an empty item list
\* and the constructor returns normally.
C14_UnusableStoredValueStartsEmpty ==
    (/\ last.op = "constructor"
     /\ last.args # <<>>
     /\ ~StoredArray(last.args[1]))
    => (items = <<>> /\ last.out \in {"nothingSaved", "caught", "notAnArray"})

\* C14 witness: a cart was constructed over a text that is not JSON, the
\* error was caught and the cart is empty
C14_Witness ==
    /\ last.op = "constructor"
    /\ last.args = <<[has |-> TRUE, text |-> "not json"]>>
    /\ last.out = "caught"
    /\ items = <<>>

\* C15: a stored array that is not a well-formed sequence of item records (a
\* record without id, name or image, a quantity below 1, an id that repeats)
\* is discarded as a whole on load: the cart starts empty and none of the
\* records is applied.
C15_MalformedSnapshotDiscarded ==
    (/\ last.op = "constructor"
     /\ last.args # <<>>
     /\ StoredArray(last.args[1])
     /\ ~WellFormedSnapshot(last.args[1].json))
    => items = <<>>

\* C16: when the pipeline a checkout started resolves, the item list becomes
\* empty, the stored snapshot becomes the empty list and the customer info
\* is the default record: every string field empty, acceptedTos false.
C16_SuccessClearsCartAndCustomer ==
    [][last'.op = "resolved"
       => /\ items' = <<>>
          /\ storage' = [has |-> TRUE, json |-> <<>>]
          /\ customerInfo' = [name |-> <<>>, email |-> <<>>, acceptedTos |-> FALSE,
                              address |-> [street |-> <<>>, city |-> <<>>,
                                           postal |-> <<>>, country |-> <<>>]]]_vars

\* C16 witness: the pipeline of a confirmed order has resolved while another
\* one is still waiting, and the cart, the snapshot and the customer info
\* are cleared
C16_Witness ==
    /\ last.op = "resolved"
    /\ last.args[1].answer = "ok" /\ last.args[1].navigated
    /\ Len(pipes) = 1
    /\ items = <<>>
    /\ storage = [has |-> TRUE, json |-> <<>>]
    /\ customerInfo.name = <<>> /\ ~customerInfo.acceptedTos

\* C17: when the pipeline a checkout started is rejected, the item list, the
\* stored snapshot and the submitted customer info are what they were when
\* the submission started, and a failure notice is shown.
C17_FailureLeavesStateUntouched ==
    [][last'.out = "formatFailed"
       => /\ items' = items
          /\ storage' = storage
          /\ form' = form
          /\ customerInfo' = customerInfoFromForm(form)
          /\ "alert" \in fx']_vars

\* C17 witness: a submission of a cart with an item whose price is a text
\* was rejected; the item, the snapshot and the submitted name are in place
\* and the alert was shown
C17_Witness ==
    /\ last.out = "formatFailed"
    /\ fx = {"alert"}
    /\ Len(items) = 1 /\ items[1].price = Str("100")
    /\ storage = setItem(items)
    /\ customerInfo.name = <<"J", "o">> /\ customerInfo.acceptedTos
    /\ ~submitDisabled

\* C18: when the user declines the prompt, the pipeline goes on to resolve
\* and is not rejected, and the mail client is never opened for that
\* attempt, whether the copy succeeded or failed.
C18_DeclineResolvesWithoutMailto ==
    [][/\ (/\ last'.op = "clipboardSettled"
            /\ last'.args = <<FALSE>>)
           => /\ "mailto" \notin fx' /\ "alert" \notin fx'
              /\ \E i \in 1..Len(pipes) :
                    /\ pipes[i].pc = "copying"
                    /\ pipes' = [pipes EXCEPT ![i] = [pc |-> "timer", answer |-> "cancel",
                                                      navigated |-> FALSE]]
       /\ (/\ last'.out \in {"started", "startedEmpty"}
            /\ last'.args[1] # "apiPending"
            /\ last'.args[2] = FALSE)
           => /\ "mailto" \notin fx' /\ "alert" \notin fx'
              /\ pipes' = Append(pipes, [pc |-> "timer", answer |-> "cancel",
                                         navigated |-> FALSE])
       /\ \A i \in 1..Len(pipes) :
             pipes[i].answer = "cancel"
             => /\ ~pipes[i].navigated
                /\ \/ i <= Len(pipes') /\ pipes'[i] = pipes[i]
                   \/ /\ last'.op = "resolved"
                      /\ \E j \in 1..i : last'.args[1] = pipes[j] /\ pipes' = without(pipes, j)
                      /\ fx' = {"successMessage"}]_vars

\* C18 witness: the pipeline of an attempt whose copy failed and whose prompt
\* was declined has resolved, and the mail client was not opened for it
C18_Witness ==
    /\ last.op = "resolved"
    /\ last.args[1] = [pc |-> "timer", answer |-> "cancel", navigated |-> FALSE]
    /\ "mailto" \notin fx
    /\ pipes = <<>>

\* C19: a failed copy, whether the copy promise rejects or the clipboard
\* call throws, never rejects the pipeline: the prompt is still shown, the
\* mail client is opened when the user confirms, and the pipeline goes on
\* to resolve.
C19_CopyFailureIsNotFatal ==
    [][/\ (last'.op = "clipboardSettled" /\ last'.out = "failed")
           => /\ "confirmNotCopied" \in fx' /\ "alert" \notin fx'
              /\ ("mailto" \in fx') = last'.args[1]
              /\ \E i \in 1..Len(pipes) :
                    /\ pipes[i].pc = "copying"
                    /\ pipes' = [pipes EXCEPT ![i] =
                                    [pc |-> "timer",
                                     answer |-> IF last'.args[1] THEN "ok" ELSE "cancel",
                                     navigated |-> last'.args[1]]]
       /\ (/\ last'.out \in {"started", "startedEmpty"}
            /\ last'.args[1] \in {"apiThrows", "fallbackFails", "fallbackThrows"})
           => /\ "confirmNotCopied" \in fx' /\ "alert" \notin fx'
              /\ ("mailto" \in fx') = last'.args[2]
              /\ pipes' = Append(pipes, [pc |-> "timer",
                                         answer |-> IF last'.args[2] THEN "ok" ELSE "cancel",
                                         navigated |-> last'.args[2]])
       /\ \A i \in 1..Len(pipes) :
             pipes[i].pc = "timer" => ENABLED TimerFires(i)]_vars

\* C19 witness: the clipboard call threw inside the submit handler, the
\* prompt that says so was confirmed, the mail client was opened and the
\* pipeline waits for its timer
C19_Witness ==
    /\ last.out = "started"
    /\ last.args[1] = "apiThrows" /\ last.args[2] = TRUE
    /\ fx = {"clipboardWrite", "confirmNotCopied", "mailto"}
    /\ pipes = <<[pc |-> "timer", answer |-> "ok", navigated |-> TRUE]>>

\* C20: an exception raised while the order email is formatted rejects the
\* promise of sendOrderEmail with that error, and for such an attempt there
\* is no clipboard write, no prompt and no mailto navigation.
C20_FormatErrorRejects ==
    [][(/\ last'.op \in {"submit", "checkout"}
        /\ last'.out # "invalid"
        /\ formatOrderEmail(items).threw)
       => /\ last'.out = "formatFailed"
          /\ last'.args = <<formatOrderEmail(items).error>>
          /\ fx' \cap CheckoutEffects = {}
          /\ pipes' = pipes]_vars

\* C20 witness: checkout() on a cart of two items, one with a text for a
\* price, was rejected with the TypeError of the formatter and nothing but
\* the alert happened
C20_Witness ==
    /\ last.op = "checkout" /\ last.out = "formatFailed"
    /\ last.args = <<"TypeError: item.price.toFixed is not a function">>
    /\ Len(items) = 2 /\ items[1].price = Str("100")
    /\ fx = {"alert"}
    /\ pipes = <<>>

\* C21: the copy step tries the clipboard API first and, when that attempt
\* fails, uses the hidden textarea and execCommand('copy') before a copy
\* failure is reported.
C21_FallbackAfterPrimaryFailure ==
    [][(\/ last'.op = "clipboardSettled" /\ last'.out = "failed"
        \/ /\ last'.out \in {"started", "startedEmpty"}
           /\ last'.args[1] = "apiThrows")
       => "execCommand" \in fx']_vars

\* C22: in every state in which no submission is in flight, the submit
\* control is enabled only if the checkout form is valid, the terms of
\* service are accepted and the cart is not empty.
C22_EnabledOnlyWhenReady ==
    (pipes = <<>> /\ ~submitDisabled)
    => (checkValidity(form) /\ form.tos /\ Len(items) > 0)

\* C22 witness: a submission was rejected and its catch callback enabled the
\* submit control again, over a valid form and a cart of one item
C22_Witness ==
    /\ pipes = <<>> /\ ~submitDisabled
    /\ last.out = "formatFailed"
    /\ form = ValidForm
    /\ Len(items) = 1

\* C23: from the start of a submission until its pipeline settles the submit
\* control stays disabled, whatever field input events, terms of service
\* change events and cart mutations happen while the pipeline is in flight.
C23_DisabledWhileInFlight ==
    pipes # <<>> => submitDisabled

\* C24: at most one submission pipeline is in flight at any time: a second
\* checkout attempt, by a submit event or by checkout(), made while one is in
\* flight starts no second pipeline.
C24_AtMostOnePipeline ==
    Len(pipes) <= 1

\* C26: validateOrderData fails with an EmailServiceError if and only if the
\* items list of the order is empty, its customer is absent, its total is
\* negative or its timestamp is absent; every other order record is accepted.
C26_ValidateOrderData ==
    last.op = "validateOrderData"
    => LET o == last.args[1]
           structural == \/ o.items = <<>>
                         \/ o.customer \in {Undef, Null}
                         \/ o.total.n < 0
                         \/ o.timestamp \in {Undef, Null}
       IN /\ structural => (last.out = "threw" /\ last.args[2].error = "EmailServiceError")
          /\ ~structural => last.out = "returned"

\* C26 witness: an order whose only defect is a negative total was rejected
\* with an EmailServiceError
C26_Witness ==
    /\ last.op = "validateOrderData" /\ last.out = "threw"
    /\ last.args[2].error = "EmailServiceError"
    /\ last.args[1].items # <<>>
    /\ last.args[1].customer = JohnDoe
    /\ last.args[1].total = Num(-10)
    /\ last.args[1].timestamp = Str("2024-01-01T00:00:00.000Z")

C25_ValidationFailureAborts ==
    [][(/\ last'.op \in {"submit", "checkout"}
        /\ \/ ~validateForm(form)
           \/ validateOrderData(Order(items, customerInfoFromForm(form),
                                      Num(total(items)),
                                      Str("2024-01-01T00:00:00.000Z"))).threw)
       => /\ fx' \cap CheckoutEffects = {}
          /\ items' = items
          /\ customerInfo' = customerInfo
          /\ fx' \cap {"validationErrors", "alert"} # {}]_vars

\* every step of s that is in first comes before every step that is in then
before(s, first, then) ==
    \A i, j \in 1..Len(s) : (s[i] \in first /\ s[j] \in then) => i < j

\* the steps of s that are in kinds
stepsOf(s, kinds) == {i \in 1..Len(s) : s[i] \in kinds}

\* C28: within a submission attempt the steps have a fixed order: the body
\* is formatted before the copy is attempted, the prompt is shown only after
\* the copy attempt has settled, the mailto navigation happens only after an
\* affirmative answer, and the attempt resolves only after the prompt was
\* answered.
C28_StepsInOrder ==
    [][LET copy == {"clipboardWrite", "execCommand"}
           prompt == {"confirmCopied", "confirmNotCopied"}
       IN /\ stepsOf(steps', copy) # {} => stepsOf(steps', {"format"}) # {}
          /\ before(steps', {"format"}, copy)
          /\ stepsOf(steps', prompt) # {}
             => \/ stepsOf(steps', copy) # {} /\ last'.args[1] # "apiPending"
                \/ /\ last'.op = "clipboardSettled"
                   /\ \E i \in 1..Len(pipes) :
                         pipes[i].pc = "copying" /\ pipes'[i].pc = "timer"
          /\ before(steps', copy, prompt)
          /\ stepsOf(steps', {"mailto"}) # {}
             => /\ stepsOf(steps', prompt) # {}
                /\ \E i \in 1..Len(pipes') :
                      /\ pipes'[i].answer = "ok"
                      /\ i > Len(pipes) \/ pipes[i].pc = "copying"
          /\ before(steps', prompt, {"mailto"})
          /\ stepsOf(steps', {"resolve"}) # {}
             => /\ last'.args[1].pc = "timer"
                /\ last'.args[1].answer \in {"ok", "cancel"}
          /\ \A i \in 1..Len(pipes) :
                pipes[i].pc = "copying" => ~ENABLED TimerFires(i)]_vars

\* C28 witness: the clipboard promise of an attempt has been fulfilled, then
\* the prompt was shown and confirmed, the mail client was opened and the
\* resolve timer was started
C28_Witness ==
    /\ last.op = "clipboardSettled" /\ last.out = "copied"
    /\ steps = <<"confirmCopied", "mailto", "setTimeout">>
    /\ pipes = <<[pc |-> "timer", answer |-> "ok", navigated |-> TRUE]>>

\* C29: a declined prompt counts as a successful checkout for the cart: when
\* the attempt of a declined prompt resolves, the item list is emptied and
\* the customer info is the default record, although the mail client was
\* not opened for that order.
C29_DeclineStillClearsCart ==
    [][/\ (last'.op = "resolved" /\ last'.args[1].answer = "cancel")
          => /\ ~last'.args[1].navigated
             /\ "mailto" \notin fx'
             /\ items' = <<>>
             /\ storage' = [has |-> TRUE, json |-> <<>>]
             /\ customerInfo' = [name |-> <<>>, email |-> <<>>, acceptedTos |-> FALSE,
                                 address |-> [street |-> <<>>, city |-> <<>>,
                                              postal |-> <<>>, country |-> <<>>]]
       /\ \A i \in 1..Len(pipes) :
             pipes[i].answer = "cancel" => ENABLED TimerFires(i)]_vars

\* C29 witness: the attempt of a declined prompt has resolved; the cart held
\* two items before and is empty now, and the customer info is reset
C29_Witness ==
    /\ last.op = "resolved"
    /\ last.args[1] = [pc |-> "timer", answer |-> "cancel", navigated |-> FALSE]
    /\ Len(last.args[2]) = 2
    /\ items = <<>>
    /\ customerInfo = createDefaultCustomerInfo

\* C30: the clear after a successful submission removes only items of the
\* dispatched order: an item that was added to the cart while the pipeline
\* was in flight is still in the cart after the success handler has run.
C30_ItemAddedInFlightSurvives ==
    [][(/\ last.op = "addItem" /\ last.out = "appended"
        /\ pipes # <<>>
        /\ last'.op = "resolved")
       => \E k \in 1..Len(items') : items'[k].id = ToStr(last.args[1].id)]_vars

\* C31: every submission attempt eventually settles and the submit control
\* eventually leaves its loading state, provided the clipboard operation
\* eventually settles and the user eventually answers the prompt: the
\* pipeline at place i of those in flight, or one that started before it,
\* is eventually resolved.
C31_EveryAttemptSettles ==
    /\ \A i \in 1..MaxPipes :
          (Len(pipes) >= i) ~> (last.op = "resolved" /\ last.args[3] <= i)
    /\ loading ~> ~loading

\* C31 witness: the older of two attempts has resolved, the other one still
\* waits for its clipboard promise, and the loading indicator is off
C31_Witness ==
    /\ last.op = "resolved" /\ last.args[3] = 1
    /\ Len(pipes) = 1 /\ pipes[1].pc = "copying"
    /\ ~loading


\* C32: updateQuantity(id, currentQuantity, delta) with arguments of the right
\* types on an id present in the cart goes by the currentQuantity it was
\* handed, whatever quantity is stored: when currentQuantity + delta is
\* positive the first item of that id holds exactly that quantity afterwards,
\* otherwise no item of that id is left.
C32_CallerQuantityDecides ==
    [][(/\ last'.op = "updateQuantity"
        /\ last'.args[1].t = "str"
        /\ last'.args[2].t = "num"
        /\ last'.args[3].t = "num"
        /\ find(items, last'.args[1].s) # 0)
       => LET id == last'.args[1].s
              newQty == last'.args[2].n + last'.args[3].n
          IN IF newQty > 0
             THEN /\ find(items', id) = find(items, id)
                  /\ items'[find(items, id)].quantity = newQty
             ELSE positionsOfId(items', id) = {}]_vars

\* C32 witness: both items hold quantity 1 after updateQuantity("2", 0, 1) was
\* applied to the second one; no quantity below 1 is ever stored, so the
\* currentQuantity 0 was stale
C32_Witness ==
    /\ last = [op |-> "updateQuantity", out |-> "set",
               args |-> <<Str("2"), Num(0), Num(1)>>]
    /\ Len(items) = 2
    /\ items[1].id = "1" /\ items[1].quantity = 1
    /\ items[2].id = "2" /\ items[2].quantity = 1

\* C33: a click on an update-quantity button with change c gives every item
\* of the button's product id, stored with quantity q, the quantity q + c
\* when q + c > 0 and removes it otherwise.
C33_ClickAppliesChangeToStored ==
    [][last'.op = "updateQuantity"
       => LET id == last'.args[1].s
              c == last'.args[3].n
          IN \A k \in positionsOfId(items, id) :
                IF items[k].quantity + c > 0
                THEN /\ Len(items') = Len(items)
                     /\ items'[k].id = id
                     /\ items'[k].quantity = items[k].quantity + c
                ELSE positionsOfId(items', id) = {}]_vars


\* C34: addItem stores a price that is zero, undefined or missing as absent;
\* an item whose price is absent adds nothing to the total and adds its
\* quantity to the count; and the order e-mail shows N/A as its unit price
\* and as its line total.
C34_AbsentPrice ==
    [][/\ (/\ last'.op = "addItem"
           /\ last'.out = "appended"
           /\ ~Truthy(last'.args[1].price))
          => items'[Len(items')].price = Undef
       /\ \A i \in 1..Len(items') :
             items'[i].price = Undef
             => /\ total(items') = total(without(items', i))
                /\ count(items') = count(without(items', i)) + items'[i].quantity
       /\ (last'.op \in {"submit", "checkout"} /\ last'.out = "started")
          => /\ Len(last'.args[3]) = Len(items)
             /\ \A i \in 1..Len(items) :
                   items[i].price = Undef
                   => /\ last'.args[3][i].quantity = items[i].quantity
                      /\ last'.args[3][i].price = "N/A"
                      /\ last'.args[3][i].total = "N/A"]_vars

\* C34 witness: an order of two units at 100 and two units without a price
\* was formatted: the total is 200, the count 4, and the second item's lines
\* show N/A where the first one's show 100.00 and 200.00
C34_Witness ==
    /\ last.op = "submit" /\ last.out = "started"
    /\ Len(items) = 2
    /\ items[1].price = Num(100) /\ items[1].quantity = 2
    /\ items[2].price = Undef /\ items[2].quantity = 2
    /\ total(items) = 200 /\ count(items) = 4
    /\ last.args[3][1].price = "100.00" /\ last.args[3][1].total = "200.00"
    /\ last.args[3][2].price = "N/A" /\ last.args[3][2].total = "N/A"


\* C35: copyToClipboard calls the clipboard API exactly when
\* navigator.clipboard exists and the context is secure and otherwise runs
\* the copy command on a hidden textarea, in both cases on the text it was
\* given; its promise resolves exactly when the path it chose succeeded, and
\* rejects when the API's promise rejects, when the copy command returns
\* false and when the copy command throws.
C35_CopyPathAndOutcome ==
    last.op \in {"copyToClipboard", "writeTextSettled"}
    => LET env == last.args[1]
           api == env.clipboard /\ env.secure
       IN /\ "clipboardWrite" \in fx <=> api
          /\ "execCommand" \in fx <=> ~api
          /\ steps[2] = last.args[2]
          /\ last.out = "resolved"
             <=> IF api
                 THEN env.write = "resolves" /\ last.op = "writeTextSettled"
                 ELSE env.exec = "true"
          /\ (api /\ env.write = "rejects" /\ last.op = "writeTextSettled")
             => last.out = "rejected"
          /\ (~api /\ env.exec \in {"false", "throws"}) => last.out = "rejected"

\* C35 witness: in a secure context with a clipboard whose write is refused
\* the API was called, no copy command was run and the promise is rejected
C35_Witness ==
    /\ last.op = "writeTextSettled"
    /\ last.out = "rejected"
    /\ last.args[1].clipboard /\ last.args[1].secure
    /\ last.args[1].exec = "true"
    /\ fx = {"clipboardWrite"}


\* the pipelines of ps other than the i-th
others(ps, i) == SubSeq(ps, 1, i - 1) \o SubSeq(ps, i + 1, Len(ps))

\* C36: every submission attempt that gets past formatting shows exactly one
\* confirmation prompt, and the prompt says the order was copied exactly when
\* the copy succeeded. A step that starts an attempt shows one prompt unless
\* the clipboard promise is still pending, in which case it shows none and
\* the step that settles the promise shows one; no other step shows a prompt,
\* an attempt is prompted once only, and only a prompted attempt resolves.
C36_OnePromptPerAttempt ==
    [][LET prompts == stepsOf(steps', {"confirmCopied", "confirmNotCopied"})
           claimsCopied == stepsOf(steps', {"confirmCopied"}) # {}
       IN CASE last'.op \in {"submit", "checkout"}
                    /\ last'.out \in {"started", "startedEmpty"} ->
                 /\ pipes' = Append(pipes, pipes'[Len(pipes')])
                 /\ IF last'.args[1] = "apiPending"
                    THEN /\ prompts = {}
                         /\ pipes'[Len(pipes')].pc = "copying"
                    ELSE /\ Cardinality(prompts) = 1
                         /\ claimsCopied <=> last'.args[1] = "fallbackOk"
                         /\ pipes'[Len(pipes')].pc = "timer"
            [] last'.op = "clipboardSettled" ->
                 /\ Cardinality(prompts) = 1
                 /\ claimsCopied <=> last'.out = "copied"
                 /\ \E i \in 1..Len(pipes) :
                       /\ pipes[i].pc = "copying"
                       /\ Len(pipes') = Len(pipes)
                       /\ pipes'[i].pc = "timer"
                       /\ others(pipes', i) = others(pipes, i)
            [] last'.op = "resolved" ->
                 /\ prompts = {}
                 /\ last'.args[1].pc = "timer"
                 /\ pipes' = others(pipes, last'.args[3])
            [] OTHER ->
                 /\ prompts = {}
                 /\ pipes' = pipes]_vars

\* C36 witness: the clipboard promise of an attempt was rejected and the one
\* prompt shown for it is the one without the clipboard claim
C36_Witness ==
    /\ last.op = "clipboardSettled" /\ last.out = "failed"
    /\ stepsOf(steps, {"confirmCopied", "confirmNotCopied"}) = {1}
    /\ steps[1] = "confirmNotCopied"
    /\ Len(pipes) = 1 /\ pipes[1].pc = "timer"


\* C37: insertion order is preserved: an id that was not in the cart enters
\* at the end of the item list, and only through addItem; a product merged
\* into an existing item leaves every item at its place; and two items that
\* are in the cart before and after an addItem, removeItem or updateQuantity
\* are in the same order after it as before.
C37_InsertionOrderKept ==
    [][/\ \A k \in 1..Len(items') :
             positionsOfId(items, items'[k].id) = {}
             => /\ last'.op = "addItem"
                /\ k = Len(items')
                /\ SubSeq(items', 1, k - 1) = items
       /\ (last'.op = "addItem" /\ last'.out = "merged")
          => /\ Len(items') = Len(items)
             /\ \A i \in 1..Len(items) : items'[i].id = items[i].id
       /\ \A i, j \in 1..Len(items) : \A k, l \in 1..Len(items') :
             (i < j /\ items'[k].id = items[i].id /\ items'[l].id = items[j].id)
             => k < l]_vars

\* C37 witness: of the items added in the order 3, 2, 1 the middle one was
\* removed, and 3 is still ahead of 1
C37_Witness ==
    /\ last.op = "removeItem" /\ last.out = "removed" /\ last.args[1] = Str("2")
    /\ Len(items) = 2
    /\ items[1].id = "3" /\ items[2].id = "1"


\* C38: addToCart(productId) with an id no product of the catalog has
\* dispatches no 'cart:add' event and leaves the cart as it was; with an id
\* of the catalog it dispatches exactly one 'cart:add' event, which carries
\* the id, name, image and price of that product and makes the cart run
\* addItem exactly once: one unit of the product is added.
C38_AddToCartDispatch ==
    [][last'.op = "addToCart"
       => LET productId == last'.args[1]
              found == {k \in 1..Len(products) : products[k].id = productId}
              events == stepsOf(steps', {"cart:add"})
              calls == stepsOf(steps', {"addItem"})
          IN IF found = {}
             THEN /\ events = {} /\ calls = {}
                  /\ items' = items /\ storage' = storage
             ELSE /\ Cardinality(events) = 1 /\ Cardinality(calls) = 1
                  /\ \E k \in found :
                        /\ last'.args[2].id = products[k].id
                        /\ last'.args[2].name = products[k].name
                        /\ last'.args[2].image = products[k].image
                        /\ last'.args[2].price = products[k].price
                  /\ items' = addItemItems(items, last'.args[2])
                  /\ count(items') = count(items) + 1]_vars

\* C38 witness: addToCart of an id the catalog does not have ran on a cart
\* that holds lamp 2, put there by an earlier addToCart, and the cart still
\* holds just that
C38_Witness ==
    /\ last = [op |-> "addToCart", out |-> "notFound", args |-> <<Str("999")>>]
    /\ Len(items) = 1
    /\ items[1].id = "2" /\ items[1].name = Str("Calabash Lamp 2")
    /\ items[1].quantity = 1


\* a product that has id, name and image and whose price is absent or a
\* number that is not negative
ValidProduct(product) ==
    /\ ~addItemRejects(product)
    /\ \/ product.price = Undef
       \/ product.price.t = "num" /\ product.price.n >= 0

\* items that came from valid products
ValidItems(its) ==
    \A i \in 1..Len(its) :
       \/ its[i].price = Undef
       \/ its[i].price.t = "num" /\ its[i].price.n >= 0

\* the cart with fields that holds the items its
cachedCart(its) ==
    cachedUpdateCart(
        [items |-> [i \in 1..Len(its) |-> [its[i] EXCEPT !.quantity = Num(@)]],
         total |-> Num(0), count |-> Num(0)])

\* the cart with fields after the operation op with the arguments args
cachedAfter(c, op, args) ==
    CASE op = "addItem" -> cachedAddItem(c, args[1])
      [] op = "removeItem" -> cachedRemoveItem(c, args[1])
      [] op = "updateQuantity" -> cachedUpdateQuantity(c, args[1], args[2], args[3])
      [] OTHER -> cachedClearCart(c)

\* the operations on valid products: any removeItem, updateQuantity and
\* clearCart, and addItem of a valid product, on items of valid products
onValidProducts ==
    /\ last'.op \in {"addItem", "removeItem", "updateQuantity", "clearCart"}
    /\ ValidItems(items)
    /\ last'.op = "addItem" => ValidProduct(last'.args[1])

\* C39: when the cart that keeps total and count in fields and the cart with
\* getters hold the same items of valid products, then after the same
\* addItem, removeItem, updateQuantity or clearCart the fields of the former
\* are the total and the count of its items, and the two carts hold the same
\* items, the same total and the same count again; so they do after every
\* sequence of these operations.
C39_CachedCartEquivalent ==
    [][onValidProducts
       => LET c == cachedAfter(cachedCart(items), last'.op, last'.args)
          IN /\ c.total = cachedTotalFrom(c.items, Num(0))
             /\ c.count = cachedCountFrom(c.items, Num(0))
             /\ c.items = cachedCart(items').items
             /\ c.total = Num(total(items'))
             /\ c.count = Num(count(items'))]_vars

\* the same for updateQuantity with a string id and whole numbers only
C39_EquivalentOnTypedArguments ==
    [][(/\ onValidProducts
        /\ last'.op = "updateQuantity" => ~updateQuantityBadArgs(last'.args[1],
                                              last'.args[2], last'.args[3]))
       => LET c == cachedAfter(cachedCart(items), last'.op, last'.args)
          IN /\ c.total = cachedTotalFrom(c.items, Num(0))
             /\ c.count = cachedCountFrom(c.items, Num(0))
             /\ c.items = cachedCart(items').items
             /\ c.total = Num(total(items'))
             /\ c.count = Num(count(items'))]_vars

====
